---- MODULE Spec2Model ----
(***************************************************************************)
(* Model of the Kanbn GitHub Sync reconciliation engine: the rate-limited  *)
(* board client (kanbnRequest), the issue -> list state machine            *)
(* (determineListForIssue), the card scan with duplicate removal           *)
(* (getAllBoardCards), the card upsert (syncIssueCard) and the cycle       *)
(* driver (syncAllRepositories) with its timer and manual triggers.        *)
(***************************************************************************)
EXTENDS Integers, Sequences, FiniteSets, TLC

VARIABLES
  lst,              \* SpecList: one determineListForIssue call (inputs, result)
  now,              \* SpecReq: Date.now(), in milliseconds
  lastRequestTime,  \* SpecReq: the module-level gate timestamp of kanbnRequest
  call,             \* SpecReq: per caller, the position inside kanbnRequest
  wire,             \* SpecReq: what has been sent on the wire (observer)
  board,            \* Spec: the cards of the repository's board, by publicId
  github,           \* Spec: the repository's issues at GitHub, by number
  labelCache,       \* Spec: labelCache.get(boardId): None or the cached names
  timer,            \* Spec: syncIntervalTimer is set
  cyc,              \* Spec: per execution of syncAllRepositories, its frame
  env,              \* Spec: events of the environment and executions so far
  obs,              \* Spec: observer of the runs and the writes (history)
  sweep,            \* SpecSweep: one syncAllRepositories over all repositories
  ws,               \* SpecBoard: the workspace's boards and repoBoardCache
  doc,              \* SpecDoc: an issue and the description built for it
  cfg,              \* SpecCfg: config.json, the derived interval, the timer
  sched,            \* SpecSched: the clock, the interval timer, the executions
  bl,               \* SpecLists: the lists of a board and repoListCache
  lab,              \* SpecLabel: the labels of a board and labelCache
  gh,               \* SpecFetch: one fetchGitHubIssues call
  xt,               \* SpecExtract: a card and the issue number read from it
  wt                \* SpecWatch: the interval timers and the config watcher

listVars == <<lst>>
reqVars  == <<now, lastRequestTime, call, wire>>
syncVars == <<board, github, labelCache, timer, cyc, env, obs>>
moreVars == <<lab, gh, xt, wt>>
partVars == <<sweep, ws, doc, cfg, sched, bl>>
auxVars  == <<partVars, moreVars>>
vars     == <<lst, now, lastRequestTime, call, wire,
              board, github, labelCache, timer, cyc, env, obs, sweep, ws, doc, cfg,
              sched, bl, lab, gh, xt, wt>>

(***************************************************************************)
(* Optional values (undefined / null in the source) are sequences of       *)
(* length at most one.                                                     *)
(***************************************************************************)
None == << >>
Some(x) == <<x>>
IsSome(o) == Len(o) > 0
The(o) == o[1]

(***************************************************************************)
(* List names.                                                             *)
(***************************************************************************)
getListNames ==
  [ BACKLOG           |-> "Backlog",
    SELECTED          |-> "Selected",
    IN_PROGRESS       |-> "In Progress",
    READY_FOR_QA      |-> "Ready for QA",
    QUALITY_ASSURANCE |-> "Quality Assurance",
    COMPLETED         |-> "Completed" ]

\* listOrder of getOrCreateLists: the order of the lists on a board.
listOrder ==
  << getListNames.BACKLOG, getListNames.SELECTED, getListNames.IN_PROGRESS,
     getListNames.READY_FOR_QA, getListNames.QUALITY_ASSURANCE,
     getListNames.COMPLETED >>

AllLists == { listOrder[i] : i \in 1..Len(listOrder) }

(***************************************************************************)
(* determineListForIssue(issue, pullRequest).                              *)
(*   issue.state          "open" | "closed"                                *)
(*   issue.assignees      sequence of logins (possibly absent = empty)     *)
(*   issue.pull_request   None | Some([url |-> string])                    *)
(*   pullRequest          None | Some([assignees, requested_reviewers,     *)
(*                                     draft])                             *)
(***************************************************************************)
determineListForIssue_DraftLast(issue, pullRequest) ==
  LET listNames == getListNames IN
  IF issue.state = "closed" THEN listNames.COMPLETED
  ELSE IF IsSome(pullRequest) THEN
    LET pr == The(pullRequest)
        hasPrAssignees == Len(pr.assignees) > 0
        hasReviewers == Len(pr.requested_reviewers) > 0
    IN IF pr.draft THEN listNames.IN_PROGRESS
       ELSE IF hasPrAssignees \/ hasReviewers THEN listNames.QUALITY_ASSURANCE
       ELSE listNames.READY_FOR_QA
  ELSE IF IsSome(issue.pull_request) /\ The(issue.pull_request).url # ""
    THEN listNames.READY_FOR_QA
  ELSE IF Len(issue.assignees) > 0 THEN listNames.SELECTED
  ELSE listNames.BACKLOG

determineListForIssue(issue, pullRequest) ==
  LET listNames == getListNames IN
  IF issue.state = "closed" THEN listNames.COMPLETED
  ELSE IF IsSome(pullRequest) THEN
    LET pr == The(pullRequest)
        hasPrAssignees == Len(pr.assignees) > 0
        hasReviewers == Len(pr.requested_reviewers) > 0
    IN IF hasPrAssignees \/ hasReviewers THEN listNames.QUALITY_ASSURANCE
       ELSE IF pr.draft THEN listNames.IN_PROGRESS
       ELSE listNames.READY_FOR_QA
  ELSE IF IsSome(issue.pull_request) /\ The(issue.pull_request).url # ""
    THEN listNames.READY_FOR_QA
  ELSE IF Len(issue.assignees) > 0 THEN listNames.SELECTED
  ELSE listNames.BACKLOG

(***************************************************************************)
(* SpecList: determineListForIssue applied to every input of a bounded     *)
(* domain.                                                                 *)
(***************************************************************************)
Logins == { << >>, <<"alice">>, <<"alice", "bob">> }
PrRefs == { None, Some([url |-> ""]), Some([url |-> "https://api.github.com/pulls/7"]) }
ListIssues ==
  [ state : {"open", "closed"}, assignees : Logins, pull_request : PrRefs ]
ListPulls ==
  {None} \cup
  { Some(p) : p \in [ assignees : Logins, requested_reviewers : Logins,
                      draft : BOOLEAN ] }

(***************************************************************************)
(* The list names of the configuration.  config.lists is a record of the   *)
(* six optional names, "" standing for an absent (or empty) one: both are  *)
(* falsy to the || of getListNames.  A property the object returned by     *)
(* getListNames does not have reads as undefined.                          *)
(***************************************************************************)
DEFAULT_LIST_NAMES ==
  [ BACKLOG |-> "Backlog", SELECTED |-> "Selected",
    IN_PROGRESS |-> "In Progress", COMPLETED |-> "Completed" ]

orDefault(name, default) == IF name # "" THEN name ELSE default

getListNamesFor(lists) ==
  [ BACKLOG     |-> orDefault(lists.backlog, DEFAULT_LIST_NAMES.BACKLOG),
    SELECTED    |-> orDefault(lists.selected, DEFAULT_LIST_NAMES.SELECTED),
    IN_PROGRESS |-> orDefault(lists.inProgress, DEFAULT_LIST_NAMES.IN_PROGRESS),
    COMPLETED   |-> orDefault(lists.completed, DEFAULT_LIST_NAMES.COMPLETED) ]

undefined == "undefined"

nameOf(listNames, key) ==
  IF key \in DOMAIN listNames THEN listNames[key] ELSE undefined

\* determineListForIssue, reading the names of a given getListNames() result.
determineListForIssueWith(listNames, issue, pullRequest) ==
  IF issue.state = "closed" THEN nameOf(listNames, "COMPLETED")
  ELSE IF IsSome(pullRequest) THEN
    LET pr == The(pullRequest)
        hasPrAssignees == Len(pr.assignees) > 0
        hasReviewers == Len(pr.requested_reviewers) > 0
    IN IF hasPrAssignees \/ hasReviewers THEN nameOf(listNames, "QUALITY_ASSURANCE")
       ELSE IF pr.draft THEN nameOf(listNames, "IN_PROGRESS")
       ELSE nameOf(listNames, "READY_FOR_QA")
  ELSE IF IsSome(issue.pull_request) /\ The(issue.pull_request).url # ""
    THEN nameOf(listNames, "READY_FOR_QA")
  ELSE IF Len(issue.assignees) > 0 THEN nameOf(listNames, "SELECTED")
  ELSE nameOf(listNames, "BACKLOG")

NoLists ==
  [ backlog |-> "", selected |-> "", inProgress |-> "", readyForQa |-> "",
    qualityAssurance |-> "", completed |-> "" ]

ConfigLists ==
  { NoLists,
    [ NoLists EXCEPT !.backlog = "Todo", !.selected = "Next",
                     !.inProgress = "Doing", !.completed = "Done" ],
    [ NoLists EXCEPT !.readyForQa = "Review", !.qualityAssurance = "QA" ],
    [ NoLists EXCEPT !.backlog = "Todo", !.selected = "Todo" ] }

(***************************************************************************)
(* The list map of getOrCreateLists, with the ids.  A Map is the set of    *)
(* its <<key, value>> entries; the lists of a board are records of         *)
(* publicId and name, a created list gets the id the server gives to the   *)
(* POST of its round.                                                      *)
(***************************************************************************)
Stages ==
  << "BACKLOG", "SELECTED", "IN_PROGRESS", "READY_FOR_QA", "QUALITY_ASSURANCE",
     "COMPLETED" >>

\* Lines 413-421: listOrder of the names getListNames() returned.
listOrderOf(listNames) == [ i \in 1..Len(Stages) |-> nameOf(listNames, Stages[i]) ]

has(map, key) == \E e \in map : e[1] = key
get(map, key) == (CHOOSE e \in map : e[1] = key)[2]
set(map, key, value) == { e \in map : e[1] # key } \cup { <<key, value>> }

\* existingLists.find((l) => l.name === listName): the first match; the
\* lists of a board come in the order of their ids here.
find(existingLists, listName) ==
  LET matches == { l \in existingLists : l.name = listName }
  IN IF matches = {} THEN None
     ELSE Some(CHOOSE l \in matches :
                 \A m \in matches : l.publicId[2] <= m.publicId[2])

\* The loop of lines 422-447 from round i on, the POST of round failAt (if
\* that round sends one) failing: <<"ok", map>> or <<"throw", map>>.
RECURSIVE listRounds(_, _, _, _, _)
listRounds(listOrd, existingLists, failAt, i, listMap) ==
  IF i > Len(listOrd) THEN <<"ok", listMap>>
  ELSE LET listName == listOrd[i]
           found == find(existingLists, listName)
       IN IF IsSome(found)
          THEN listRounds(listOrd, existingLists, failAt, i + 1,
                          set(listMap, listName, The(found).publicId))
          ELSE IF failAt = i THEN <<"throw", listMap>>
          ELSE listRounds(listOrd, existingLists, failAt, i + 1,
                          set(listMap, listName, <<"post", i - 1>>))

BoardLists ==
  { {},
    { [publicId |-> <<"board", 1>>, name |-> "Backlog"],
      [publicId |-> <<"board", 2>>, name |-> "In Progress"] },
    { [publicId |-> <<"board", 1>>, name |-> "Todo"],
      [publicId |-> <<"board", 2>>, name |-> "Done"],
      [publicId |-> <<"board", 3>>, name |-> "Backlog"] } }

ListStart ==
  lst \in [ issue : ListIssues, pullRequest : ListPulls, lists : ConfigLists,
            done : {FALSE}, result : {""}, configured : {""},
            existingLists : BoardLists, mapped : {""}, listMap : {{}},
            target : {""}, targetListId : {None} ]

\* getOrCreateLists of syncIssueCard (line 816), the cache empty and the
\* lists of the board fetched.
MapLists ==
  /\ lst.mapped = ""
  /\ \E failAt \in 0..Len(Stages) :
       LET r == listRounds(listOrderOf(getListNamesFor(lst.lists)),
                           lst.existingLists, failAt, 1, {})
       IN lst' = [lst EXCEPT !.mapped = r[1], !.listMap = r[2]]
  /\ UNCHANGED <<reqVars, syncVars, auxVars>>

\* Lines 819-824: the id of the target list, or the throw of 'List "..." not
\* found'.
TargetList ==
  /\ lst.mapped = "ok"
  /\ lst.done
  /\ lst.target = ""
  /\ lst' = IF has(lst.listMap, lst.configured)
            THEN [lst EXCEPT !.target = "found",
                             !.targetListId = Some(get(lst.listMap, lst.configured))]
            ELSE [lst EXCEPT !.target = "throw"]
  /\ UNCHANGED <<reqVars, syncVars, auxVars>>

DetermineList ==
  /\ ~lst.done
  /\ lst' = [lst EXCEPT !.done = TRUE,
                        !.result = determineListForIssue(lst.issue, lst.pullRequest),
                        !.configured =
                          determineListForIssueWith(getListNamesFor(lst.lists),
                                                    lst.issue, lst.pullRequest)]
  /\ UNCHANGED <<reqVars, syncVars, auxVars>>

(***************************************************************************)
(* kanbnRequest: the rate-limit gate and the retry loop.                   *)
(***************************************************************************)
MIN_REQUEST_DELAY_MS == 650
maxRetries == 3
\* waitMs = Math.floor((1 + Math.random()) * 60) * 1000 lies in 60000..119000;
\* what follows a backoff depends only on its exceeding MIN_REQUEST_DELAY_MS,
\* and the model draws the shortest wait.
BackoffMinMs == 60000
BackoffWaitsMs == {BackoffMinMs}

Callers == {"a", "b"}
MaxCalls == 3             \* logical kanbnRequest calls started, over all callers
MaxTicks == 4             \* fine-grained clock steps explored
StepMs == MIN_REQUEST_DELAY_MS \div 2
T0 == MIN_REQUEST_DELAY_MS  \* Date.now() at start: no wait against lastRequestTime = 0

\* Responses of the board API: status and whether the error body's message
\* contains 'Rate limit'.
Responses ==
  { [status |-> 200, rateLimitBody |-> FALSE],
    [status |-> 429, rateLimitBody |-> FALSE],
    [status |-> 500, rateLimitBody |-> FALSE],
    [status |-> 401, rateLimitBody |-> TRUE],
    [status |-> 401, rateLimitBody |-> FALSE],
    [status |-> 404, rateLimitBody |-> FALSE] }

\* Further failures, answered to a single caller (SpecReqOne).
OtherResponses ==
  { [status |-> 400, rateLimitBody |-> FALSE],
    [status |-> 502, rateLimitBody |-> FALSE],
    [status |-> 503, rateLimitBody |-> FALSE] }

\* The request a caller makes: method and endpoint.
request(p) ==
  IF p = "a" THEN [method |-> "GET", endpoint |-> "/boards/b1"]
  ELSE [method |-> "POST", endpoint |-> "/cards"]

\* Lines 122-130: the url of a relative endpoint.
url(endpoint) == <<"KAN_BASE_URL", "/api/v1", endpoint>>

\* await response.text()
errorText(r) == IF r.rateLimitBody THEN "Rate limit exceeded" ELSE "error"

\* Lines 183-187: the error thrown for any other failed response.
fullErrorMsg(method, requestUrl, r) ==
  [method |-> method, url |-> requestUrl, status |-> r.status,
   errorText |-> errorText(r)]

isRateLimit(r) == (r.status = 401 /\ r.rateLimitBody) \/ r.status = 429
isServerError_5xx(r) == r.status >= 500
isServerError(r) == r.status = 500

ShouldRetry_Inclusive(retryCount) == retryCount <= maxRetries
ShouldRetry(retryCount) == retryCount < maxRetries

IdleCall == [pc |-> "idle", retryCount |-> 0, wake |-> 0, sent |-> 0,
             limited |-> TRUE, result |-> "", error |-> None]

ReqStart ==
  /\ now = T0
  /\ lastRequestTime = 0
  /\ call = [p \in Callers |-> IdleCall]
  /\ wire = [last |-> 0, any |-> FALSE, tooClose |-> FALSE, calls |-> 0]

\* fetch(url, ...): one HTTP request leaves the process at time now.
Sent(w) ==
  [w EXCEPT !.last = now, !.any = TRUE,
            !.tooClose = w.tooClose \/ (w.any /\ now - w.last < MIN_REQUEST_DELAY_MS)]

\* Lines 115-120 and 145: the gate, entered with the given retryCount.  Either
\* the caller is suspended until the delay has elapsed, or it stamps
\* lastRequestTime and sends at once.
Gate(p, c, w) ==
  LET timeSinceLastRequest == now - lastRequestTime IN
  IF timeSinceLastRequest < MIN_REQUEST_DELAY_MS
  THEN /\ call' = [call EXCEPT ![p] =
                     [c EXCEPT !.pc = "delay",
                               !.wake = now + (MIN_REQUEST_DELAY_MS - timeSinceLastRequest)]]
       /\ wire' = w
       /\ UNCHANGED lastRequestTime
  ELSE /\ call' = [call EXCEPT ![p] = [c EXCEPT !.pc = "fetch", !.sent = c.sent + 1]]
       /\ lastRequestTime' = now
       /\ wire' = Sent(w)

\* A caller starts a logical kanbnRequest(endpoint, options) with retryCount 0.
Call(p) ==
  /\ call[p].pc \in {"idle", "done"}
  /\ wire.calls < MaxCalls
  /\ Gate(p, IdleCall, [wire EXCEPT !.calls = wire.calls + 1])
  /\ UNCHANGED <<now, listVars, syncVars, auxVars>>

\* The delay timer of line 118 fires.
Resume(p) ==
  /\ call[p].pc = "delay"
  /\ now >= call[p].wake
  /\ call' = [call EXCEPT ![p].pc = "fetch", ![p].sent = call[p].sent + 1]
  /\ lastRequestTime' = now
  /\ wire' = Sent(wire)
  /\ UNCHANGED <<now, listVars, syncVars, auxVars>>

\* The response arrives (lines 151-190).
Respond(p, r) ==
  /\ call[p].pc = "fetch"
  /\ LET c == [call[p] EXCEPT !.limited = call[p].limited /\ (isRateLimit(r) \/ isServerError(r))]
     IN IF r.status = 200
        THEN call' = [call EXCEPT ![p] = [c EXCEPT !.pc = "done", !.result = "ok"]]
        ELSE IF isRateLimit(r) \/ isServerError(r)
        THEN IF ShouldRetry(c.retryCount)
             THEN \E waitMs \in BackoffWaitsMs :
                    call' = [call EXCEPT ![p] =
                               [c EXCEPT !.pc = "backoff", !.wake = now + waitMs]]
             ELSE call' = [call EXCEPT ![p] =
                             [c EXCEPT !.pc = "done", !.result = "RetriesExceeded"]]
        ELSE call' = [call EXCEPT ![p] =
                        [c EXCEPT !.pc = "done", !.result = "HttpError",
                                  !.error = Some(fullErrorMsg(request(p).method,
                                                              url(request(p).endpoint), r))]]
  /\ UNCHANGED <<now, lastRequestTime, wire, listVars, syncVars, auxVars>>

\* The backoff timer of line 175 fires and kanbnRequest calls itself with
\* retryCount + 1 (line 176).
Retry(p) ==
  /\ call[p].pc = "backoff"
  /\ now >= call[p].wake
  /\ Gate(p, [call[p] EXCEPT !.retryCount = call[p].retryCount + 1], wire)
  /\ UNCHANGED <<now, listVars, syncVars, auxVars>>

\* Time passes, by a small step early on or up to the next timer; a timer fires
\* when it is due, so time does not pass beyond a pending timer.
PendingWakes == { call[p].wake : p \in { q \in Callers : call[q].pc \in {"delay", "backoff"} } }
Tick ==
  /\ \E t \in { now + StepMs : x \in { y \in {1} : now < T0 + MaxTicks * StepMs } }
              \cup PendingWakes :
       /\ t > now
       /\ \A w \in PendingWakes : t <= w
       /\ now' = t
  /\ UNCHANGED <<lastRequestTime, call, wire, listVars, syncVars, auxVars>>

ReqNext ==
  \/ \E p \in Callers : Call(p)
  \/ \E p \in Callers : Resume(p)
  \/ \E p \in Callers : \E r \in Responses : Respond(p, r)
  \/ \E p \in Callers : Retry(p)
  \/ Tick

\* kanbnRequest with every kind of response.
ReqOneNext ==
  \/ \E p \in Callers : Call(p)
  \/ \E p \in Callers : Resume(p)
  \/ \E p \in Callers : \E r \in Responses \cup OtherResponses : Respond(p, r)
  \/ \E p \in Callers : Retry(p)
  \/ Tick

ListNext == DetermineList \/ MapLists \/ TargetList

(***************************************************************************)
(* The board, the issues and the cards.                                    *)
(***************************************************************************)
IssueNums == {1}
Titles == {"a"}
LabelNames == {"k", "j"}
Cycles == {1, 2}      \* executions of syncAllRepositories that may be in progress

MaxCards == 3         \* cards ever put on the board
MaxEvents == 1        \* failed requests, changes of an issue at GitHub and
                      \* changes of the board made outside this process
MaxSent == 3          \* card requests counted in one syncIssueCard
MaxCycles == 2        \* executions of syncAllRepositories started

\* listMap.get(listName): the id of a list is its position on the board.
listMap(listName) == CHOOSE i \in 1..Len(listOrder) : listOrder[i] = listName

\* An issue as fetchGitHubIssues returns it; html_url and user follow from the
\* number.  A body is a text and whether it ends in white space.
Bodies == { Some([text |-> "x", pad |-> TRUE]) }
IssueVersions ==
  [ number : IssueNums, title : Titles, state : {"open", "closed"},
    assignees : { << >> }, pull_request : { None }, body : Bodies,
    labels : { << >>, <<"k">> } ]

\* A title is '#<num>: <text>' (canon), '#<num>:<text>' (tight) or <text> (plain).
cardTitle(issue) == [form |-> "canon", num |-> issue.number, text |-> issue.title]

\* descriptionParts.join(''): the issue link, the author, the assignees, the body.
buildDescription(issue) ==
  [url |-> issue.number, assignees |-> issue.assignees, body |-> issue.body]

\* String.prototype.trim on a description: trailing white space of the body goes.
trim_Identity(description) == description
trim(description) ==
  IF IsSome(description.body)
  THEN [description EXCEPT !.body = Some([The(description.body) EXCEPT !.pad = FALSE])]
  ELSE description

\* trim on (existingCard?.description || '').
trimOpt(description) == IF IsSome(description) THEN Some(trim(The(description))) ELSE None

\* card.title.match(/^#(\d+):\s/)
titlePrefixMatch(title) == IF title.form = "canon" THEN Some(title.num) ELSE None

\* card.title.startsWith(`#${issueNumber}:`)
startsWithPrefix(title, issueNumber) ==
  title.form \in {"canon", "tight"} /\ title.num = issueNumber

\* card.description.match(<repositoryUrl>/issues/(\d+))
descriptionIssueMatch(description) ==
  IF IsSome(description) /\ The(description).url # 0
  THEN Some(The(description).url) ELSE None

\* Lines 706-731: the issue number a card resolves to.
extractIssueNumber(card) ==
  IF IsSome(titlePrefixMatch(card.title)) THEN titlePrefixMatch(card.title)
  ELSE descriptionIssueMatch(card.description)

\* The cards a GET /boards/{id} returns: the lists in board order, the live cards
\* of a list in the order of their creation.
LiveIds(b) == { i \in 1..Len(b) : b[i].live }
ScanKey(b, i) == b[i].listPublicId * (Len(b) + 1) + i
RECURSIVE SortIds(_, _)
SortIds(b, ids) ==
  IF ids = {} THEN << >>
  ELSE LET m == CHOOSE x \in ids : \A y \in ids : ScanKey(b, x) <= ScanKey(b, y)
       IN <<m>> \o SortIds(b, ids \ {m})
boardResponse(b) ==
  LET ids == SortIds(b, LiveIds(b)) IN
  [ k \in 1..Len(ids) |->
      [publicId |-> ids[k], title |-> b[ids[k]].title,
       description |-> b[ids[k]].description,
       listPublicId |-> b[ids[k]].listPublicId, labels |-> b[ids[k]].labels] ]

cardInfo(card) ==
  [publicId |-> card.publicId, title |-> card.title,
   description |-> card.description, listPublicId |-> card.listPublicId]

\* cardsByIssue.get(issueNumber): the scanned cards that resolve to the number.
cardsByIssue(resp, issueNumber) ==
  SelectSeq(resp, LAMBDA card : extractIssueNumber(card) = Some(issueNumber))

\* Line 762: cards.find(card => card.title.startsWith(`#N:`)) || cards[0]
bestCard_First(cards, issueNumber) == cards[1]
bestCard(cards, issueNumber) ==
  LET hits == SelectSeq(cards, LAMBDA card : startsWithPrefix(card.title, issueNumber))
  IN IF hits # << >> THEN hits[1] ELSE cards[1]

\* Line 765: cards.filter(card => card.publicId !== bestCard.publicId)
duplicatesOf(cards, issueNumber) ==
  LET best == bestCard(cards, issueNumber) IN
  SelectSeq(cards, LAMBDA card : card.publicId # best.publicId)

\* cardMap as built by lines 755-779.
cardMapOf(resp) ==
  [ n \in IssueNums |->
      LET cards == cardsByIssue(resp, n) IN
      IF cards = << >> THEN None ELSE Some(cardInfo(bestCard(cards, n))) ]

\* duplicatesToDelete as built by lines 753-779: by issue in the order of the
\* first card of each, the duplicates of an issue in scan order.
RECURSIVE firstSeen(_, _)
firstSeen(resp, seen) ==
  IF resp = << >> THEN << >>
  ELSE LET n == extractIssueNumber(Head(resp)) IN
       IF IsSome(n) /\ The(n) \notin seen
       THEN <<The(n)>> \o firstSeen(Tail(resp), seen \cup {The(n)})
       ELSE firstSeen(Tail(resp), seen)
RECURSIVE duplicatesToDeleteOf(_, _)
duplicatesToDeleteOf(resp, nums) ==
  IF nums = << >> THEN << >>
  ELSE LET dups == duplicatesOf(cardsByIssue(resp, Head(nums)), Head(nums)) IN
       [k \in 1..Len(dups) |-> dups[k].publicId] \o duplicatesToDeleteOf(resp, Tail(nums))

\* labelsMap of lines 691-704 (and of fetchBoardLabels): the labels on the cards.
labelsOf(resp) == UNION { resp[k].labels : k \in 1..Len(resp) }

\* The live cards of the board that resolve to an issue number.
LiveCardsFor(b, n) ==
  { i \in LiveIds(b) : extractIssueNumber(b[i]) = Some(n) }

(***************************************************************************)
(* The frame of one execution of syncAllRepositories, with the frames of   *)
(* getAllBoardCards and syncIssueCard it is in.  Fields below the line are *)
(* history the properties read.                                            *)
(***************************************************************************)
NoCards == [n \in IssueNums |-> None]
Counted(k) == IF k < MaxSent THEN k + 1 ELSE k
AllFalse == [n \in IssueNums |-> FALSE]

IdleFrame ==
  [ pc |-> "idle",
    existingCardsMap |-> NoCards,  \* syncAllRepositories.existingCardsMap
    resp |-> << >>,                \* getAllBoardCards: the board response
    cardMap |-> NoCards,           \* getAllBoardCards.cardMap
    duplicatesToDelete |-> << >>,  \* getAllBoardCards.duplicatesToDelete
    labelsMap |-> {},              \* getAllBoardCards.labelsMap
    ret |-> "cycle",               \* who called getAllBoardCards
    issues |-> << >>,              \* syncAllRepositories.issues
    i |-> 0,                       \* position of the loop over the issues
    existingCard |-> None,         \* syncIssueCard.existingCard
    recursionDepth |-> 0,          \* syncIssueCard.recursionDepth
    todo |-> << >>,                \* mapLabels: the labels still to map
    labelIds |-> {},               \* mapLabels.labelIds
    result |-> "",                 \* of the last syncIssueCard: true, false, throw
    patches |-> 0,                 \* PATCH /cards requests of this syncIssueCard
    posts |-> 0,                   \* POST /cards requests of this syncIssueCard
    created |-> 0,                 \* syncAllRepositories.created
    updated |-> 0,                 \* syncAllRepositories.updated
    errors |-> 0,                  \* syncAllRepositories.errors
    \* ----------------------------------------------------------------
    hardFail |-> FALSE,   \* a request other than a board scan failed
    dirty |-> FALSE,      \* the board was written by someone else meanwhile
    fresh |-> AllFalse,   \* the snapshot was taken after the issue's last run
    rep |-> FALSE,        \* this run repeats the previous run of the issue
    wrote |-> FALSE,      \* this run has sent a write request
    acted |-> 0,          \* the card this run updated, kept or created
    before |-> FALSE,     \* the issue had a live card when this run was called
    createdFor |-> {},    \* issues this execution has created a card for
    badCreate |-> FALSE,  \* a card was created for an issue that had a live card
    delSent |-> {} ]      \* cards this scan has sent a DELETE for

\* Cards that reach the board from elsewhere: a copy of the card of an issue,
\* a card from before the title prefix, a card with a hand-written prefix.
OutsideCards ==
  { [ title |-> [form |-> "canon", num |-> n, text |-> "a"],
      description |-> Some([url |-> n, assignees |-> << >>,
                            body |-> Some([text |-> "x", pad |-> FALSE])]),
      listPublicId |-> listMap(getListNames.BACKLOG),
      labels |-> {"j"}, live |-> TRUE ] : n \in IssueNums }
  \cup
  { [ title |-> [form |-> f, num |-> n, text |-> "b"],
      description |-> Some([url |-> n, assignees |-> << >>, body |-> None]),
      listPublicId |-> listMap(IF f = "plain" THEN getListNames.BACKLOG
                               ELSE getListNames.COMPLETED),
      labels |-> {}, live |-> TRUE ] : n \in IssueNums, f \in {"plain", "tight"} }

\* The board the service finds when it starts: empty, or with such a card.
InitialBoards ==
  { << >> } \cup { <<x>> : x \in OutsideCards }

SyncStart ==
  /\ board \in InitialBoards
  /\ github \in [IssueNums -> IssueVersions]
  /\ \A n \in IssueNums : github[n].number = n
  /\ labelCache = [repoBoardCache |-> FALSE, repoListCache |-> FALSE, labels |-> None]
  /\ timer = FALSE
  /\ cyc = [c \in Cycles |-> IdleFrame]
  /\ env = [events |-> 0, cycles |-> 0]
  /\ obs = [stable |-> AllFalse, clean |-> FALSE]

SyncRest ==
  /\ board = << >>
  /\ github = [n \in IssueNums |-> CHOOSE v \in IssueVersions : v.number = n]
  /\ labelCache = [repoBoardCache |-> FALSE, repoListCache |-> FALSE, labels |-> None]
  /\ timer = FALSE
  /\ cyc = [c \in Cycles |-> IdleFrame]
  /\ env = [events |-> 0, cycles |-> 0]
  /\ obs = [stable |-> AllFalse, clean |-> FALSE]

\* A failed request, an edit and an outside change are drawn from one budget.
MayHappen == env.events < MaxEvents
MayFail == MayHappen
Happened(e) == [e EXCEPT !.events = e.events + 1]
Failed(e) == Happened(e)

\* A write to the board by execution c: the other frames' snapshots are stale.
Touch(cy, c) ==
  [ d \in Cycles |->
      IF d = c THEN [cy[d] EXCEPT !.fresh = AllFalse]
      ELSE [cy[d] EXCEPT !.fresh = AllFalse, !.dirty = TRUE] ]
TouchAll(cy) ==
  [ d \in Cycles |-> [cy[d] EXCEPT !.fresh = AllFalse, !.dirty = TRUE] ]

(***************************************************************************)
(* syncAllRepositories, for the one configured repository.                 *)
(***************************************************************************)
\* The execution has run to its completion step (lines 169-193): its frame is
\* gone, and a second execution in progress takes the first place.
Completed(cy, c) ==
  LET rest == [cy EXCEPT ![c] = IdleFrame] IN
  IF rest[1].pc = "idle" /\ rest[2].pc # "idle"
  THEN [d \in Cycles |-> rest[3 - d]]
  ELSE rest

\* The last execution to complete did so without a failed request and without
\* a write to the board by anyone else, and the board was not written since.
Clean(o, f) == [o EXCEPT !.clean = ~f.hardFail /\ ~f.dirty]

\* Lines 122-128: the loop reaches issue i and calls syncIssueCard, which runs
\* up to its first request (lines 815-827).
StartIssue(f, i, stable) ==
  LET issue == f.issues[i] IN
       [f EXCEPT !.i = i,
                 !.existingCard = f.existingCardsMap[issue.number],
                 !.recursionDepth = 0,
                 !.todo = issue.labels,
                 !.labelIds = {},
                 !.result = "",
                 !.patches = 0,
                 !.posts = 0,
                 !.pc = IF issue.labels = << >> THEN "upsert" ELSE "labels",
                 !.rep = stable[issue.number] /\ f.fresh[issue.number],
                 !.wrote = FALSE,
                 !.acted = 0]

\* The board as it is when the loop calls syncIssueCard for issue i.
AtCall(f, b) ==
  [f EXCEPT !.before = LiveCardsFor(b, f.issues[f.i].number) # {}]

\* Lines 124-146: hadCard is taken from the map of the scan (issueCardMap is
\* never written); a throw counts an error, a return without a card in the
\* map counts a creation, a return of true with one counts an update.
tally(f, res) ==
  LET hadCard == IsSome(f.existingCardsMap[f.issues[f.i].number]) IN
  IF res = "throw" THEN [f EXCEPT !.errors = @ + 1]
  ELSE IF ~hadCard THEN [f EXCEPT !.created = @ + 1]
  ELSE IF res = "true" THEN [f EXCEPT !.updated = @ + 1]
  ELSE f

\* syncIssueCard returns or throws; the loop sleeps 100 ms (lines 130-151).
Returned(f, res, cardId) ==
  [tally(f, res) EXCEPT !.pc = "returned", !.result = res, !.acted = cardId,
                        !.hardFail = f.hardFail \/ res = "throw"]

\* The run of syncIssueCard for issue n has ended: the issue is reconciled, and
\* every snapshot taken before is older than this run.
RunEnded(o, n, res) ==
  [o EXCEPT !.stable = [o.stable EXCEPT ![n] = (res # "throw")]]
Unstable(o) == [o EXCEPT !.stable = AllFalse, !.clean = FALSE]
Stale(cy, n) == [d \in Cycles |-> [cy[d] EXCEPT !.fresh[n] = FALSE]]

\* fetchGitHubIssues: the issues, newest first.
RECURSIVE issueList(_, _)
issueList(g, nums) ==
  IF nums = {} THEN << >>
  ELSE LET m == CHOOSE x \in nums : \A y \in nums : y <= x
       IN <<g[m]>> \o issueList(g, nums \ {m})

\* A slot for a new execution: the first that is free.
FreeSlot(c) ==
  /\ cyc[c].pc = "idle"
  /\ \A d \in Cycles : d < c => cyc[d].pc # "idle"
  /\ env.cycles < MaxCycles

\* syncAllRepositories() is called (lines 27-51).
Started(c) ==
  /\ cyc' = [cyc EXCEPT ![c] = [IdleFrame EXCEPT !.pc = "phase1"]]
  /\ env' = [env EXCEPT !.cycles = env.cycles + 1]
  /\ UNCHANGED <<board, github, labelCache, obs>>

\* initializeService: the initial sync is started, not awaited, and the interval
\* timer is set.
InitialSync(c) ==
  /\ ~timer
  /\ FreeSlot(c)
  /\ Started(c)
  /\ timer' = TRUE
  /\ UNCHANGED <<listVars, reqVars, auxVars>>

\* startSyncInterval: the interval timer fires.
TimerTick(c) ==
  /\ timer
  /\ FreeSlot(c)
  /\ Started(c)
  /\ UNCHANGED <<timer, listVars, reqVars, auxVars>>

\* POST /sync without owner and repo.  A request served while the service
\* still starts up has the effect of InitialSync followed by this.
ManualTrigger(c) ==
  /\ timer
  /\ FreeSlot(c)
  /\ Started(c)
  /\ UNCHANGED <<timer, listVars, reqVars, auxVars>>

\* Phase 1 (lines 54-65): getOrCreateBoard and getOrCreateLists.  With both
\* caches filled no request is made; otherwise the requests succeed, or the
\* board or the list requests fail and the repository is skipped.
Phase1(c) ==
  /\ cyc[c].pc = "phase1"
  /\ IF labelCache.repoBoardCache /\ labelCache.repoListCache
     THEN /\ cyc' = [cyc EXCEPT ![c].pc = "scan", ![c].ret = "cycle"]
          /\ UNCHANGED <<labelCache, env, obs>>
     ELSE \/ /\ cyc' = [cyc EXCEPT ![c].pc = "scan", ![c].ret = "cycle"]
             /\ labelCache' = [labelCache EXCEPT !.repoBoardCache = TRUE,
                                                 !.repoListCache = TRUE]
             /\ UNCHANGED <<env, obs>>
          \/ /\ MayFail
             /\ \E boardOk \in BOOLEAN :
                  labelCache' = [labelCache EXCEPT
                                   !.repoBoardCache = labelCache.repoBoardCache \/ boardOk]
             /\ cyc' = Completed(cyc, c)
             /\ env' = Failed(env)
             /\ obs' = [obs EXCEPT !.clean = FALSE]
  /\ UNCHANGED <<board, github, timer, listVars, reqVars, auxVars>>

\* getAllBoardCards, lines 670-779: the board is fetched and the card map and
\* the duplicates are computed; or the fetch fails and the map stays empty
\* (lines 796-801).
Scan(c) ==
  /\ cyc[c].pc = "scan"
  /\ \/ /\ LET resp == boardResponse(board) IN
           cyc' = [cyc EXCEPT ![c] =
                     [cyc[c] EXCEPT !.pc = "dedup",
                                    !.resp = resp,
                                    !.cardMap = cardMapOf(resp),
                                    !.duplicatesToDelete =
                                       duplicatesToDeleteOf(resp, firstSeen(resp, {})),
                                    !.labelsMap = labelsOf(resp),
                                    !.delSent = {},
                                    !.fresh = IF cyc[c].ret = "cycle" THEN obs.stable
                                              ELSE @]]
        /\ UNCHANGED env
     \/ /\ MayFail
        /\ cyc' = [cyc EXCEPT ![c] =
                     [cyc[c] EXCEPT !.pc = "dedup", !.resp = << >>,
                                    !.cardMap = NoCards,
                                    !.duplicatesToDelete = << >>,
                                    !.labelsMap = {}, !.delSent = {},
                                    !.fresh = IF cyc[c].ret = "cycle" THEN AllFalse
                                              ELSE @]]
        /\ env' = Failed(env)
  /\ UNCHANGED <<board, github, labelCache, timer, obs, listVars, reqVars, auxVars>>

\* Lines 782-790: deleteCard for the next duplicate; a failure is only logged.
Dedup(c) ==
  /\ cyc[c].pc = "dedup"
  /\ cyc[c].duplicatesToDelete # << >>
  /\ LET id == Head(cyc[c].duplicatesToDelete)
         f == [cyc[c] EXCEPT !.duplicatesToDelete = Tail(@),
                             !.delSent = @ \cup {id}]
     IN \/ /\ board[id].live
           /\ board' = [board EXCEPT ![id].live = FALSE]
           /\ cyc' = Touch([cyc EXCEPT ![c] = f], c)
           /\ obs' = Unstable(obs)
           /\ UNCHANGED env
        \/ /\ MayFail \/ ~board[id].live
           /\ cyc' = [cyc EXCEPT ![c] = [f EXCEPT !.hardFail = TRUE]]
           /\ env' = IF board[id].live THEN Failed(env) ELSE env
           /\ UNCHANGED <<board, obs>>
  /\ UNCHANGED <<github, labelCache, timer, listVars, reqVars, auxVars>>

\* Lines 792-801: getAllBoardCards caches the labels it saw and returns the
\* map: to syncAllRepositories (line 91), or to the not-found branch of
\* syncIssueCard (lines 931-944).
\* Lines 932-944 of syncIssueCard, after the re-scan: a different card for
\* the issue is taken up by a recursive call, once; otherwise the card is
\* created.
NotFound_Again(f, existingCardForIssue) == [f EXCEPT !.pc = "upsert"]
NotFound(f, existingCardForIssue) ==
  IF /\ IsSome(existingCardForIssue)
     /\ The(existingCardForIssue).publicId # The(f.existingCard).publicId
     /\ f.recursionDepth < 1
  THEN [f EXCEPT !.existingCard = existingCardForIssue,
                 !.recursionDepth = f.recursionDepth + 1,
                 !.todo = f.issues[f.i].labels,
                 !.labelIds = {},
                 !.pc = IF f.issues[f.i].labels = << >> THEN "upsert" ELSE "labels"]
  ELSE [f EXCEPT !.pc = "create"]

ScanReturn(c) ==
  /\ cyc[c].pc = "dedup"
  /\ cyc[c].duplicatesToDelete = << >>
  /\ labelCache' = IF cyc[c].labelsMap # {}
                   THEN [labelCache EXCEPT !.labels = Some(cyc[c].labelsMap)]
                   ELSE labelCache
  /\ LET f == [cyc[c] EXCEPT !.resp = << >>, !.cardMap = NoCards,
                             !.labelsMap = {}, !.delSent = {}]
         issue == cyc[c].issues[cyc[c].i]
     IN cyc' = [cyc EXCEPT ![c] =
          IF cyc[c].ret = "cycle"
          THEN [f EXCEPT !.pc = "fetch", !.existingCardsMap = cyc[c].cardMap]
          ELSE NotFound(f, cyc[c].cardMap[issue.number])]
  /\ UNCHANGED <<board, github, timer, env, obs, listVars, reqVars, auxVars>>

\* Lines 96-116: fetchGitHubIssues returns the issues, or fails.
Fetch(c) ==
  /\ cyc[c].pc = "fetch"
  /\ \/ /\ cyc' = [cyc EXCEPT ![c] =
                     AtCall(StartIssue([cyc[c] EXCEPT
                                           !.issues = issueList(github, IssueNums)],
                                       1, obs.stable), board)]
        /\ UNCHANGED <<env, obs>>
     \/ /\ MayFail
        /\ cyc' = Completed(cyc, c)
        /\ env' = Failed(env)
        /\ obs' = [obs EXCEPT !.clean = FALSE]
  /\ UNCHANGED <<board, github, labelCache, timer, listVars, reqVars, auxVars>>

\* The loop goes on to the next issue, or the execution completes.
NextIssue(c) ==
  /\ cyc[c].pc = "returned"
  /\ IF cyc[c].i < Len(cyc[c].issues)
     THEN /\ cyc' = [cyc EXCEPT ![c] =
                        AtCall(StartIssue(cyc[c], cyc[c].i + 1, obs.stable), board)]
          /\ UNCHANGED obs
     ELSE /\ cyc' = Completed(cyc, c)
          /\ obs' = Clean(obs, cyc[c])
  /\ UNCHANGED <<board, github, labelCache, timer, env, listVars, reqVars, auxVars>>

(***************************************************************************)
(* mapLabels and syncIssueCard.                                            *)
(***************************************************************************)
theIssue(f) == f.issues[f.i]

\* Lines 819-820: the target list; syncAllRepositories passes no pullRequest.
targetListId(f) == listMap(determineListForIssue(theIssue(f), None))

\* After the last label mapLabels returns and syncIssueCard goes on.
Mapped(f, labelId) ==
  [f EXCEPT !.todo = Tail(@),
            !.labelIds = @ \cup labelId,
            !.pc = IF Tail(f.todo) = << >> THEN "upsert" ELSE "labels"]

\* fetchBoardLabels (lines 512-563) when the board has no cache entry: the
\* labels on the cards are cached, or an empty map if the request fails.
FetchBoardLabels(c) ==
  /\ cyc[c].pc = "labels"
  /\ ~IsSome(labelCache.labels)
  /\ \/ /\ labelCache' = [labelCache EXCEPT
                            !.labels = Some(labelsOf(boardResponse(board)))]
        /\ UNCHANGED env
     \/ /\ MayFail
        /\ labelCache' = [labelCache EXCEPT !.labels = Some({})]
        /\ env' = Failed(env)
  /\ UNCHANGED <<board, github, timer, cyc, obs, listVars, reqVars, auxVars>>

\* getOrCreateLabel (lines 572-621) for the next label of the issue: a cached
\* label costs no request; otherwise POST /labels, whose failure yields null.
MapLabel(c) ==
  /\ cyc[c].pc = "labels"
  /\ IsSome(labelCache.labels)
  /\ LET labelName == Head(cyc[c].todo) IN
     IF labelName \in The(labelCache.labels)
     THEN /\ cyc' = [cyc EXCEPT ![c] = Mapped(cyc[c], {labelName})]
          /\ UNCHANGED <<labelCache, env>>
     ELSE \/ /\ labelCache' = [labelCache EXCEPT
                                 !.labels = Some(The(@) \cup {labelName})]
             /\ cyc' = [cyc EXCEPT ![c] =
                          [Mapped(cyc[c], {labelName}) EXCEPT !.wrote = TRUE]]
             /\ UNCHANGED env
          \/ /\ MayFail
             /\ cyc' = [cyc EXCEPT ![c] =
                          [Mapped(cyc[c], {}) EXCEPT !.wrote = TRUE]]
             /\ env' = Failed(env)
             /\ UNCHANGED labelCache
  /\ UNCHANGED <<board, github, timer, obs, listVars, reqVars, auxVars>>

\* Lines 879-882, with the list left out of the comparison.
needsUpdate_NoList(f) ==
  \/ ~IsSome(f.existingCard)
  \/ The(f.existingCard).title # cardTitle(theIssue(f))
  \/ trimOpt(The(f.existingCard).description) # Some(trim(buildDescription(theIssue(f))))

\* Lines 879-882.
needsUpdate(f) ==
  \/ ~IsSome(f.existingCard)
  \/ The(f.existingCard).title # cardTitle(theIssue(f))
  \/ trimOpt(The(f.existingCard).description) # Some(trim(buildDescription(theIssue(f))))
  \/ The(f.existingCard).listPublicId # targetListId(f)

\* The card a PATCH or a POST /cards of this run writes.
cardBody(f) ==
  [ title |-> cardTitle(theIssue(f)),
    description |-> Some(buildDescription(theIssue(f))),
    listPublicId |-> targetListId(f),
    labels |-> f.labelIds,
    live |-> TRUE ]

\* Lines 884-887: the card is up to date.
Unchanged(c) ==
  /\ cyc[c].pc = "upsert"
  /\ IsSome(cyc[c].existingCard)
  /\ ~needsUpdate(cyc[c])
  /\ cyc' = [cyc EXCEPT ![c] =
                Returned(cyc[c], "false", The(cyc[c].existingCard).publicId)]
  /\ obs' = RunEnded(obs, theIssue(cyc[c]).number, "false")
  /\ UNCHANGED <<board, github, labelCache, timer, env, listVars, reqVars, auxVars>>

\* Lines 889-950: PATCH of the existing card.  It succeeds; or the card is gone
\* and getAllBoardCards is called again; or it fails otherwise and the error is
\* thrown.
Update(c) ==
  /\ cyc[c].pc = "upsert"
  /\ IsSome(cyc[c].existingCard)
  /\ needsUpdate(cyc[c])
  /\ LET id == The(cyc[c].existingCard).publicId
         n == theIssue(cyc[c]).number
         f == [cyc[c] EXCEPT !.wrote = TRUE, !.patches = Counted(@)]
     IN \/ /\ board[id].live
           /\ board' = [board EXCEPT ![id] = cardBody(f)]
           /\ cyc' = Touch([cyc EXCEPT ![c] = Returned(f, "true", id)], c)
           /\ obs' = RunEnded(Unstable(obs), n, "true")
           /\ UNCHANGED env
        \/ /\ ~board[id].live
           /\ cyc' = [cyc EXCEPT ![c] = [f EXCEPT !.pc = "scan", !.ret = "notfound"]]
           /\ UNCHANGED <<board, obs, env>>
        \/ /\ MayFail
           /\ cyc' = [cyc EXCEPT ![c] = Returned(f, "throw", 0)]
           /\ obs' = RunEnded(obs, n, "throw")
           /\ env' = Failed(env)
           /\ UNCHANGED board
  /\ UNCHANGED <<github, labelCache, timer, listVars, reqVars, auxVars>>

\* Lines 952-980: POST /cards, for an issue without a card in the map or after a
\* not-found update.  The board takes the card, or the request fails (it does
\* when the board is full) and the error is thrown.
Create(c) ==
  /\ \/ cyc[c].pc = "create"
     \/ cyc[c].pc = "upsert" /\ ~IsSome(cyc[c].existingCard)
  /\ LET n == theIssue(cyc[c]).number
         f == [cyc[c] EXCEPT !.wrote = TRUE, !.posts = Counted(@),
                             !.badCreate = @ \/ LiveCardsFor(board, n) # {}]
     IN \/ /\ Len(board) < MaxCards
           /\ board' = Append(board, cardBody(f))
           /\ cyc' = Touch([cyc EXCEPT ![c] =
                              Returned([f EXCEPT !.createdFor = @ \cup {n}],
                                       "true", Len(board) + 1)], c)
           /\ obs' = RunEnded(Unstable(obs), n, "true")
           /\ UNCHANGED env
        \/ /\ MayFail \/ Len(board) >= MaxCards
           /\ cyc' = [cyc EXCEPT ![c] = Returned(f, "throw", 0)]
           /\ obs' = RunEnded(obs, n, "throw")
           /\ env' = IF Len(board) < MaxCards THEN Failed(env) ELSE env
           /\ UNCHANGED board
  /\ UNCHANGED <<github, labelCache, timer, listVars, reqVars, auxVars>>

(***************************************************************************)
(* GitHub and the other users of the board.                                *)
(***************************************************************************)
\* An issue changes at GitHub.
EditIssue(n, v) ==
  /\ MayHappen
  /\ v.number = n
  /\ v # github[n]
  /\ github' = [github EXCEPT ![n] = v]
  /\ env' = Happened(env)
  /\ cyc' = Stale(cyc, n)
  /\ obs' = [obs EXCEPT !.stable[n] = FALSE]
  /\ UNCHANGED <<board, labelCache, timer, listVars, reqVars, auxVars>>

OutsideAdd(card) ==
  /\ MayHappen
  /\ Len(board) < MaxCards
  /\ board' = Append(board, card)
  /\ env' = Happened(env)
  /\ cyc' = TouchAll(cyc)
  /\ obs' = Unstable(obs)
  /\ UNCHANGED <<github, labelCache, timer, listVars, reqVars, auxVars>>

OutsideDelete(id) ==
  /\ MayHappen
  /\ id \in LiveIds(board)
  /\ board' = [board EXCEPT ![id].live = FALSE]
  /\ env' = Happened(env)
  /\ cyc' = TouchAll(cyc)
  /\ obs' = Unstable(obs)
  /\ UNCHANGED <<github, labelCache, timer, listVars, reqVars, auxVars>>

SyncNext ==
  \/ \E c \in Cycles : InitialSync(c) \/ TimerTick(c) \/ ManualTrigger(c)
  \/ \E c \in Cycles : Phase1(c) \/ Scan(c) \/ Dedup(c) \/ ScanReturn(c)
  \/ \E c \in Cycles : Fetch(c) \/ NextIssue(c)
  \/ \E c \in Cycles : FetchBoardLabels(c) \/ MapLabel(c)
  \/ \E c \in Cycles : Unchanged(c) \/ Update(c) \/ Create(c)
  \/ \E n \in IssueNums, v \in IssueVersions : EditIssue(n, v)
  \/ \E card \in OutsideCards : OutsideAdd(card)
  \/ \E id \in 1..MaxCards : OutsideDelete(id)


(***************************************************************************)
(* One top-level syncIssueCard whose card reference may be stale           *)
(* (SpecCard): the board holds one, two or three cards of the issue, each   *)
(* live or deleted since the scan, and existingCard is one of them as      *)
(* scanned.                                                                *)
(* The issue has no labels, so the call starts at the update.  It runs     *)
(* with the steps of the service; a request may fail and a card may be     *)
(* deleted by someone else meanwhile.                                      *)
(***************************************************************************)
StaleBoards ==
  UNION { [1..n -> {[x EXCEPT !.live = l] : x \in OutsideCards, l \in BOOLEAN}]
          : n \in {1, 2, 3} }

CardStart ==
  /\ board \in StaleBoards
  /\ github \in [IssueNums -> IssueVersions]
  /\ \A n \in IssueNums : github[n].number = n /\ github[n].labels = << >>
  /\ labelCache = [repoBoardCache |-> TRUE, repoListCache |-> TRUE, labels |-> None]
  /\ timer = TRUE
  /\ env = [events |-> 0, cycles |-> 1]
  /\ obs = [stable |-> AllFalse, clean |-> FALSE]
  /\ \E k \in DOMAIN board :
       cyc = [c \in Cycles |->
                IF c = 1
                THEN AtCall(StartIssue(
                       [IdleFrame EXCEPT
                          !.issues = issueList(github, IssueNums),
                          !.existingCardsMap =
                             [n \in IssueNums |->
                                Some([publicId |-> k,
                                      title |-> board[k].title,
                                      description |-> board[k].description,
                                      listPublicId |-> board[k].listPublicId])]],
                       1, AllFalse), board)
                ELSE IdleFrame]

\* The steps of the call.
CardStep ==
  \/ Unchanged(1) \/ Update(1) \/ Create(1)
  \/ Scan(1) \/ Dedup(1) \/ ScanReturn(1)

CardNext == CardStep \/ \E id \in 1..MaxCards : OutsideDelete(id)

(***************************************************************************)
(* syncAllRepositories over several repositories (SpecSweep).  The calls   *)
(* it awaits are taken by their outcome: getOrCreateBoard/getOrCreateLists *)
(* resolve or throw, getAllBoardCards always resolves (it catches),        *)
(* fetchGitHubIssues resolves with a list or throws with a message, and    *)
(* syncIssueCard resolves with a boolean or throws.  A repository name is  *)
(* the sequence of its parts between '/', as repoFullName.split('/')       *)
(* yields them.                                                            *)
(***************************************************************************)
MaxRepos  == 3
MaxIssues == 2
MaxSweeps == 2

RepoNames == {<<"o", "a">>, <<"o", "b">>, <<"o", "c">>, <<"o", "d">>, <<"x">>}

\* The value of getRepositories(): distinct names, in configuration order.
RepoConfigs ==
  UNION {{s \in [1..n -> RepoNames] : \A a, b \in 1..n : s[a] = s[b] => a = b}
         : n \in 0..MaxRepos}

\* const [owner, repo] = repoFullName.split('/'); if (!owner || !repo)
validFormat(repoFullName) ==
  /\ Len(repoFullName) >= 2
  /\ repoFullName[1] # ""
  /\ repoFullName[2] # ""

\* The messages fetchGitHubIssues throws with, and errorMsg.includes('rate limit').
FetchErrors == {"GitHub API rate limit exceeded. Rate limit resets at T (in 5 minutes).",
                "GitHub API rate limit exceeded. Rate limit resets hourly.",
                "GitHub API error: 500 Internal Server Error - "}
includesRateLimit(errorMsg) ==
  errorMsg \in {"GitHub API rate limit exceeded. Rate limit resets at T (in 5 minutes).",
                "GitHub API rate limit exceeded. Rate limit resets hourly."}

\* What the catch around fetchGitHubIssues does with the error.
onFetchError_Break(errorMsg) == "break"
onFetchError_Rethrow(errorMsg) == "throw"
onFetchError(errorMsg) ==
  IF includesRateLimit(errorMsg) THEN "break" ELSE "throw"

\* if (!repoBoardMap.has(repoFullName)) continue;
skipRepo_Never(repoBoardMap, repoFullName) == FALSE
skipRepo(repoBoardMap, repoFullName) == repoFullName \notin repoBoardMap

\* catch of the per-issue try: errors++
countError_Dropped(errors) == errors
countError(errors) == errors + 1

\* The outcomes of one syncIssueCard: a written card, nothing to write, a
\* card written although createLabel returned null, or a throw.
IssueOutcomes == {"true", "false", "labelNull", "throw"}

NoAttempts == [j \in 1..MaxIssues |-> 0]

SweepIdle(repos, n, prevLimited) ==
  [repos |-> repos, pc |-> "idle", k |-> 0, repoBoardMap |-> {},
   issues |-> 0, i |-> 0, errors |-> 0,
   prov |-> {}, p1fail |-> {}, scanned |-> {}, fetched |-> {},
   fetchOk |-> {}, cardReq |-> {}, swept |-> {},
   attempts |-> NoAttempts, failed |-> {},
   limited |-> 0, prevLimited |-> prevLimited, sweeps |-> n,
   resolved |-> FALSE]

SweepRest == sweep = SweepIdle(<< >>, 0, 0)

SweepQuiet == UNCHANGED <<listVars, reqVars, syncVars, ws, doc, cfg, sched, bl, moreVars>>

\* Entry of syncAllRepositories, up to the first await of Phase 1.
SweepStart ==
  /\ sweep.pc \in {"idle", "done"}
  /\ sweep.sweeps < MaxSweeps
  /\ LET s == SweepIdle(sweep.repos, sweep.sweeps + 1, sweep.limited)
     IN  sweep' = IF Len(sweep.repos) = 0
                  THEN [s EXCEPT !.pc = "done", !.resolved = TRUE]
                  ELSE [s EXCEPT !.pc = "phase1", !.k = 1]
  /\ SweepQuiet

\* One turn of the Phase 1 loop: getOrCreateBoard, getOrCreateLists.
Provision ==
  /\ sweep.pc = "phase1"
  /\ \E ok \in BOOLEAN :
       LET k == sweep.k
           s == [sweep EXCEPT
                   !.prov = @ \cup {k},
                   !.repoBoardMap = IF ok THEN @ \cup {sweep.repos[k]} ELSE @,
                   !.p1fail = IF ok THEN @ ELSE @ \cup {k}]
       IN  sweep' = IF k < Len(sweep.repos)
                    THEN [s EXCEPT !.k = k + 1]
                    ELSE [s EXCEPT !.pc = "phase2", !.k = 1]
  /\ SweepQuiet

\* The statements after the Phase 2 loop: the promise resolves.
SweepEnded(s) == [s EXCEPT !.pc = "done", !.resolved = TRUE]

\* The Phase 2 loop moves to the next repository, or ends.
NextRepo_Again(s) ==
  [s EXCEPT !.pc = "phase2", !.issues = 0, !.i = 0,
            !.errors = 0, !.attempts = NoAttempts, !.failed = {}]
NextRepo(s) ==
  IF s.k < Len(s.repos)
  THEN [s EXCEPT !.pc = "phase2", !.k = s.k + 1, !.issues = 0, !.i = 0,
                 !.errors = 0, !.attempts = NoAttempts, !.failed = {}]
  ELSE SweepEnded(s)

\* One turn of the Phase 2 loop up to the issues: the skip, the format
\* check, getAllBoardCards and fetchGitHubIssues with its catch.
EnterRepo ==
  /\ sweep.pc = "phase2"
  /\ LET k == sweep.k
         name == sweep.repos[k]
     IN  \/ /\ skipRepo(sweep.repoBoardMap, name)
            /\ sweep' = NextRepo(sweep)
         \/ /\ ~skipRepo(sweep.repoBoardMap, name)
            /\ ~validFormat(name)
            /\ sweep' = NextRepo(sweep)
         \/ /\ ~skipRepo(sweep.repoBoardMap, name)
            /\ validFormat(name)
            /\ LET s == [sweep EXCEPT !.scanned = @ \cup {k},
                                      !.fetched = @ \cup {k}]
               IN  \/ \E n \in 0..MaxIssues :
                        sweep' = [s EXCEPT !.fetchOk = @ \cup {k},
                                           !.issues = n, !.i = 1,
                                           !.errors = 0,
                                           !.attempts = NoAttempts,
                                           !.failed = {},
                                           !.pc = IF n = 0 THEN "repoEnd"
                                                  ELSE "issues"]
                   \/ \E errorMsg \in FetchErrors :
                        LET t == [s EXCEPT !.limited =
                                     IF includesRateLimit(errorMsg) /\ @ = 0
                                     THEN k ELSE @]
                        IN  sweep' = IF onFetchError(errorMsg) = "break"
                                     THEN SweepEnded(t)
                                     ELSE NextRepo(t)
  /\ SweepQuiet

\* One turn of the issue loop: syncIssueCard in its try.
SyncIssue ==
  /\ sweep.pc = "issues"
  /\ \E out \in IssueOutcomes :
       LET i == sweep.i
           s == [sweep EXCEPT
                   !.cardReq = @ \cup {sweep.k},
                   !.attempts[i] = @ + 1,
                   !.errors = IF out = "throw" THEN countError(@) ELSE @,
                   !.failed = IF out = "throw" THEN @ \cup {i} ELSE @]
       IN  sweep' = IF i < sweep.issues
                    THEN [s EXCEPT !.i = i + 1]
                    ELSE [s EXCEPT !.pc = "repoEnd"]
  /\ SweepQuiet

\* The summary line of the repository; the loop goes on.
RepoEnd ==
  /\ sweep.pc = "repoEnd"
  /\ sweep' = NextRepo([sweep EXCEPT !.swept = @ \cup {sweep.k}])
  /\ SweepQuiet

SweepNext == SweepStart \/ Provision \/ EnterRepo \/ SyncIssue \/ RepoEnd

(***************************************************************************)
(* getOrCreateBoard for one repository (SpecBoard).  The workspace is      *)
(* taken by the number of boards that carry exactly the repository's board *)
(* name; repoBoardCache lives in the process and is empty after a restart. *)
(* Whether the server accepts a second board with the same name is not     *)
(* decided by the client: both answers are possible.                       *)
(***************************************************************************)
MaxBoards     == 2      \* boards with the repository's name in the workspace
MaxBoardCalls == 3      \* calls of getOrCreateBoard over all cycles
MaxRestarts   == 1      \* restarts of the process

boardListRetries == 5   \* const maxRetries = 5 (local to getOrCreateBoard)

\* How a request of getOrCreateBoard can fail: the server answers 500 until
\* kanbnRequest has used up its own retries, or 401, or a gateway answers 502
\* with a body that quotes a 500 of the server behind it, or the connection
\* fails; a creation can be refused as a duplicate.
BoardFailures == {"500", "401", "502quoting500", "network", "409exists"}

\* The message kanbnRequest throws (lines 166-189): a 500 never reaches the
\* caller as such, it ends in the retries-exceeded error of line 179.
thrownMessage(failure) ==
  CASE failure = "500" ->
         "Kanbn API Server errors (likely rate limited) exceeded after 3 retries. Please wait before trying again."
    [] failure = "401" ->
         "Kanbn API error: GET /boards -> 401 Unauthorized - "
    [] failure = "502quoting500" ->
         "Kanbn API error: GET /boards -> 502 Bad Gateway - upstream: 500 Internal Server Error"
    [] failure = "network" -> "fetch failed"
    [] failure = "409exists" ->
         "Kanbn API error: POST /boards -> 409 Conflict - board already exists"

\* errorMsg.includes('500 Internal Server Error')
includes500(errorMsg) ==
  errorMsg = "Kanbn API error: GET /boards -> 502 Bad Gateway - upstream: 500 Internal Server Error"

\* errorMsg.includes('already exists') || ... 'duplicate' || 'unique constraint'
isDuplicateError_Never(errorMsg) == FALSE
isDuplicateError(errorMsg) ==
  errorMsg = "Kanbn API error: POST /boards -> 409 Conflict - board already exists"

\* errorMsg.includes('500 Internal Server Error') && attempt < maxRetries - 1
retryListing(errorMsg, attempt) ==
  /\ includes500(errorMsg)
  /\ attempt < boardListRetries - 1

\* Math.pow(2, attempt) * 1000
backoffMs(attempt) == (2 ^ attempt) * 1000

WsRest == ws = [boards |-> 0, cache |-> FALSE, pc |-> "idle", attempt |-> 0,
                calls |-> 0, restarts |-> 0, badCreate |-> FALSE,
                failure |-> "", waited |-> 0, result |-> "", relisted |-> ""]

\* Entry of getOrCreateBoard: the cache check.
BoardCall ==
  /\ ws.pc = "idle"
  /\ ws.calls < MaxBoardCalls
  /\ ws' = [ws EXCEPT !.calls = @ + 1, !.attempt = 0, !.failure = "",
                      !.waited = 0, !.relisted = "",
                      !.result = IF ws.cache THEN "cached" ELSE "",
                      !.pc = IF ws.cache THEN "idle" ELSE "list"]
  /\ UNCHANGED <<listVars, reqVars, syncVars, sweep, doc, cfg, sched, bl, moreVars>>

\* One attempt of the listing loop: the GET, the find by exact name, the
\* catch with its backoff and retry, or the break to the creation.
ListBoards ==
  /\ ws.pc = "list"
  /\ \/ ws' = IF ws.boards > 0
              THEN [ws EXCEPT !.cache = TRUE, !.pc = "idle", !.failure = "",
                              !.result = "found"]
              ELSE [ws EXCEPT !.pc = "create", !.failure = ""]
     \/ \E failure \in BoardFailures \ {"409exists"} :
          ws' = IF retryListing(thrownMessage(failure), ws.attempt)
                THEN [ws EXCEPT !.attempt = @ + 1, !.failure = failure,
                                !.waited = backoffMs(ws.attempt)]
                ELSE [ws EXCEPT !.pc = "create", !.failure = failure]
  /\ UNCHANGED <<listVars, reqVars, syncVars, sweep, doc, cfg, sched, bl, moreVars>>

\* The POST of the board (lines 315-322) and the head of its catch (357-362):
\* the server takes the board, or the request fails; on a duplicate error
\* the boards are listed once more, on any other the function throws.
CreateBoard ==
  /\ ws.pc = "create"
  /\ LET sent == [ws EXCEPT !.badCreate = @ \/ ws.boards > 0] IN
       \/ /\ ws.boards < MaxBoards
          /\ ws' = [sent EXCEPT !.boards = @ + 1, !.cache = TRUE,
                                !.pc = "idle", !.result = "created"]
       \/ \E failure \in BoardFailures \ {"502quoting500"} :
            ws' = IF isDuplicateError(thrownMessage(failure))
                  THEN [sent EXCEPT !.pc = "relist", !.failure = failure]
                  ELSE [sent EXCEPT !.pc = "idle", !.failure = failure,
                                    !.result = "throw"]
  /\ UNCHANGED <<listVars, reqVars, syncVars, sweep, doc, cfg, sched, bl, moreVars>>

\* Lines 364-388: the boards are fetched once more; a board with the name is
\* cached and returned; if there is none, or the fetch fails, the error of
\* the creation is thrown.
RelistBoards ==
  /\ ws.pc = "relist"
  /\ \/ ws' = IF ws.boards > 0
              THEN [ws EXCEPT !.cache = TRUE, !.pc = "idle", !.result = "adopted",
                              !.relisted = "found"]
              ELSE [ws EXCEPT !.pc = "idle", !.result = "throw",
                              !.relisted = "none"]
     \/ ws' = [ws EXCEPT !.pc = "idle", !.result = "throw", !.relisted = "failed"]
  /\ UNCHANGED <<listVars, reqVars, syncVars, sweep, doc, cfg, sched, bl, moreVars>>

\* The process is restarted between two cycles: the module state is gone.
Restart ==
  /\ ws.pc = "idle"
  /\ ws.restarts < MaxRestarts
  /\ ws' = [ws EXCEPT !.cache = FALSE, !.restarts = @ + 1, !.attempt = 0,
                      !.failure = "", !.waited = 0, !.result = "",
                      !.relisted = ""]
  /\ UNCHANGED <<listVars, reqVars, syncVars, sweep, doc, cfg, sched, bl, moreVars>>

BoardNext == BoardCall \/ ListBoards \/ CreateBoard \/ RelistBoards \/ Restart

(***************************************************************************)
(* The description syncIssueCard builds (SpecDoc), taken by the lengths of *)
(* its pieces: the parts pushed to descriptionParts, the cut of the body   *)
(* and the final cut.  An issue is given by the length of html_url, the    *)
(* author's login (if any), the assignees' logins and the body's length.   *)
(***************************************************************************)
MAX_DESCRIPTION_LENGTH == 10000

MaxLoginLength == 39       \* longest login GitHub hands out
MaxAssignees   == 10       \* most assignees GitHub puts on an issue
MaxBodyLength  == 65536    \* longest issue body GitHub accepts

SumLengths(s) == IF Len(s) = 0 THEN 0 ELSE
                 IF Len(s) = 1 THEN s[1] ELSE
                 IF Len(s) = 2 THEN s[1] + s[2] ELSE s[1] + s[2] + s[3]

\* The non-body parts: 'GitHub Issue: [u](u)', '\nCreated by: [l](https://
\* github.com/l)', '\nAssigned to: ' with the links joined by ', '.
headerFields(issue) ==
  <<18 + 2 * issue.html_url>>
  \o (IF IsSome(issue.user) THEN <<17 + The(issue.user) + 19 + The(issue.user)>>
      ELSE << >>)
  \o (IF issue.assignees > 0
      THEN <<14 + issue.assignees * (23 + 2 * MaxLoginLength)
                + 2 * (issue.assignees - 1)>>
      ELSE << >>)

\* String(n).length of issue.body.length
digits(n) == IF n < 10 THEN 1 ELSE IF n < 100 THEN 2 ELSE IF n < 1000 THEN 3
             ELSE IF n < 10000 THEN 4 ELSE IF n < 100000 THEN 5 ELSE 6

\* '\n\n... (truncated, original issue body was N characters)'.length
truncationMessageLength(issue) == 42 + digits(issue.body) + 12

\* descriptionParts.filter((_, i) => i < descriptionParts.length - 1)
headerParts_None(descriptionParts) == << >>
headerParts(descriptionParts) ==
  SubSeq(descriptionParts, 1, Len(descriptionParts) - 1)

\* The description as sent: how much of the non-body fields, of the
\* separator and of the body it holds in front, what is left of a marker cut
\* by the final substring, the marker at its end, and its length.
description(issue) ==
  LET fields == headerFields(issue)
      parts  == IF issue.body > 0 THEN Append(fields, 7 + issue.body)
                ELSE fields
      full   == SumLengths(fields) + (IF issue.body > 0 THEN 7 + issue.body ELSE 0)
      kept   == headerParts(parts)
      header == SumLengths(kept)
      msg    == truncationMessageLength(issue)
      availableLength == MAX_DESCRIPTION_LENGTH - (header + 7) - msg - 10
      truncatedBody ==
        IF issue.body > 0
        THEN (IF availableLength < 0 THEN 0
              ELSE IF issue.body < availableLength THEN issue.body
              ELSE availableLength)
        ELSE 0
      first  == header + 7 + truncatedBody + msg
      cut    == IF MAX_DESCRIPTION_LENGTH - msg - 10 < 0 THEN 0
                ELSE MAX_DESCRIPTION_LENGTH - msg - 10
      h2     == IF header < cut THEN header ELSE cut
      s2     == IF 7 < cut - h2 THEN 7 ELSE cut - h2
      b2     == IF truncatedBody < cut - h2 - s2 THEN truncatedBody
                ELSE cut - h2 - s2
  IN  IF full <= MAX_DESCRIPTION_LENGTH
      THEN [head |-> SumLengths(fields), sep |-> IF issue.body > 0 THEN 7 ELSE 0,
            body |-> issue.body, torn |-> 0, marker |-> 0, length |-> full]
      ELSE IF first <= MAX_DESCRIPTION_LENGTH
      THEN [head |-> header, sep |-> 7, body |-> truncatedBody, torn |-> 0,
            marker |-> msg, length |-> first]
      ELSE [head |-> h2, sep |-> s2, body |-> b2, torn |-> cut - h2 - s2 - b2,
            marker |-> msg, length |-> cut + msg]

\* The issues tried: short and long links, with and without author and
\* assignees, and bodies around every length at which the result changes.
DocIssues ==
  UNION { LET h == SumLengths(headerFields([html_url |-> u, user |-> a,
                                            assignees |-> n, body |-> 0]))
          IN  { [html_url |-> u, user |-> a, assignees |-> n, body |-> b] :
                b \in {0, 1, 99, 100, 999, 1000, 9999, 10000, MaxBodyLength}
                      \cup {MAX_DESCRIPTION_LENGTH - h - 7 + d : d \in -1..2}
                      \cup {MAX_DESCRIPTION_LENGTH - h - 70 + d : d \in -6..6} }
          : u \in {29, 160},
            a \in {None, Some(1), Some(MaxLoginLength)},
            n \in {0, 1, MaxAssignees} }

DocRest == doc = [issue |-> [html_url |-> 29, user |-> None, assignees |-> 0,
                             body |-> 0],
                  sent |-> None]

\* syncIssueCard builds the description of the issue it is given.
Describe ==
  /\ ~IsSome(doc.sent)
  /\ doc' = [doc EXCEPT !.sent = Some(description(doc.issue))]
  /\ UNCHANGED <<listVars, reqVars, syncVars, sweep, ws, cfg, sched, bl, moreVars>>

(***************************************************************************)
(* The sync interval (SpecCfg): loadConfig derives SYNC_INTERVAL_MINUTES   *)
(* from config.json, startSyncInterval arms the timer with it, and         *)
(* reloadConfig runs when the file changed.  sync.intervalMinutes is 0     *)
(* when the file does not give it; GITHUB_TOKEN is read once from the      *)
(* environment.                                                            *)
(***************************************************************************)
MIN_SYNC_INTERVAL_MINUTES == 5
MaxInterval == 7        \* largest sync.intervalMinutes written to config.json

\* loadConfig, lines 63-66: config.sync?.intervalMinutes || 1, then the floor.
loadedInterval(intervalMinutes) ==
  LET configuredInterval == IF intervalMinutes = 0 THEN 1 ELSE intervalMinutes
  IN  IF configuredInterval < MIN_SYNC_INTERVAL_MINUTES
      THEN MIN_SYNC_INTERVAL_MINUTES
      ELSE configuredInterval

\* kanbn.workspaceUrlSlug names a workspace; an id belongs to the workspace it
\* was obtained from, and a cache is 0 (empty) or that workspace.
Workspaces == {1, 2}
NoCaches == [repoBoardCache |-> 0, repoListCache |-> 0, labelCache |-> 0, used |-> 0]

CfgRest == cfg = [token |-> FALSE, file |-> 0, changed |-> FALSE, seen |-> 0,
                  SYNC_INTERVAL_MINUTES |-> 5, timer |-> 0, fileSlug |-> 1,
                  KAN_WORKSPACE_URL_SLUG |-> 1, KAN_WORKSPACE_ID |-> 0,
                  caches |-> NoCaches]

\* The start of the service: loadConfig succeeds and initializeService calls
\* startSyncInterval, which reads getSyncIntervalMinutes().
Boot ==
  /\ cfg.timer = 0
  /\ cfg' = [cfg EXCEPT !.seen = cfg.file,
                        !.SYNC_INTERVAL_MINUTES = loadedInterval(cfg.file),
                        !.timer = loadedInterval(cfg.file),
                        !.KAN_WORKSPACE_URL_SLUG = cfg.fileSlug,
                        !.KAN_WORKSPACE_ID = cfg.fileSlug]
  /\ UNCHANGED <<listVars, reqVars, syncVars, sweep, ws, doc, sched, bl, moreVars>>

\* Someone saves config.json: with another interval, without one, with
\* another workspace slug, or as a file that does not parse (-1).
EditConfig ==
  /\ cfg.timer # 0
  /\ \E v \in -1..MaxInterval, w \in Workspaces :
       /\ <<v, w>> # <<cfg.file, cfg.fileSlug>>
       /\ v = -1 => w = cfg.fileSlug
       /\ cfg' = [cfg EXCEPT !.file = v, !.fileSlug = w, !.changed = TRUE]
  /\ UNCHANGED <<listVars, reqVars, syncVars, sweep, ws, doc, sched, bl, moreVars>>

\* The callback of the file watcher (setupConfigWatcher): loadConfig, and
\* if it succeeds onChange, which is reloadConfig: it notes the interval,
\* and the workspace slug, calls loadConfig again, resolves the slug if it
\* differs from the noted and returns if that fails, and restarts the timer
\* if the interval differs from the noted.  No cache is touched.
ReloadConfig ==
  /\ cfg.timer # 0
  /\ cfg.changed
  /\ LET watched == [cfg EXCEPT !.changed = FALSE,
                                !.seen = cfg.file,
                                !.SYNC_INTERVAL_MINUTES = loadedInterval(cfg.file),
                                !.KAN_WORKSPACE_URL_SLUG = cfg.fileSlug]
         oldWorkspaceUrlSlug == watched.KAN_WORKSPACE_URL_SLUG
         oldSyncInterval == watched.SYNC_INTERVAL_MINUTES
         reloaded == [watched EXCEPT
                        !.SYNC_INTERVAL_MINUTES = loadedInterval(cfg.file),
                        !.KAN_WORKSPACE_URL_SLUG = cfg.fileSlug]
         loaded == IF reloaded.KAN_WORKSPACE_URL_SLUG # oldWorkspaceUrlSlug
                   THEN [reloaded EXCEPT
                           !.KAN_WORKSPACE_ID = reloaded.KAN_WORKSPACE_URL_SLUG]
                   ELSE reloaded
         newConfiguredInterval == loaded.SYNC_INTERVAL_MINUTES
         newSyncInterval ==
           IF newConfiguredInterval < MIN_SYNC_INTERVAL_MINUTES /\ ~cfg.token
           THEN MIN_SYNC_INTERVAL_MINUTES ELSE newConfiguredInterval
     IN  IF cfg.file = -1
         THEN cfg' = [cfg EXCEPT !.changed = FALSE]
         ELSE \/ /\ reloaded.KAN_WORKSPACE_URL_SLUG # oldWorkspaceUrlSlug
                 /\ cfg' = reloaded
              \/ cfg' = IF newSyncInterval # oldSyncInterval
                        THEN [loaded EXCEPT !.timer = loaded.SYNC_INTERVAL_MINUTES]
                        ELSE loaded
  /\ UNCHANGED <<listVars, reqVars, syncVars, sweep, ws, doc, sched, bl, moreVars>>

\* A cycle provisions the repository: getOrCreateBoard and getOrCreateLists
\* return what is cached, or ask the workspace KAN_WORKSPACE_ID and cache the
\* ids; fetchBoardLabels does the same for the labels of the board.
cached(cache, workspaceId) == IF cache # 0 THEN cache ELSE workspaceId
CfgProvision ==
  /\ cfg.timer # 0
  /\ LET boardId == cached(cfg.caches.repoBoardCache, cfg.KAN_WORKSPACE_ID)
         listIds == cached(cfg.caches.repoListCache, boardId)
         labelIds == cached(cfg.caches.labelCache, boardId)
     IN  cfg' = [cfg EXCEPT !.caches =
                   [repoBoardCache |-> boardId, repoListCache |-> listIds,
                    labelCache |-> labelIds, used |-> boardId]]
  /\ UNCHANGED <<listVars, reqVars, syncVars, sweep, ws, doc, sched, bl, moreVars>>

CfgNext == Boot \/ EditConfig \/ ReloadConfig \/ CfgProvision

(***************************************************************************)
(* The interval timer and the executions it starts (SpecSched), on a clock *)
(* of minutes.  initializeService starts the initial sync without awaiting *)
(* it and calls startSyncInterval; setInterval then runs its callback      *)
(* every intervalMs, and the callback starts syncAllRepositories without   *)
(* awaiting it.  An execution takes any time to complete.                  *)
(***************************************************************************)
MaxClock == 12          \* minutes the clock runs
MaxRunning == 2         \* executions in progress at a time

SchedRest == sched = [interval |-> 0, clock |-> 0, due |-> 0, running |-> 0,
                      completedAt |-> -1, startedAt |-> -1, lastCompleted |-> -1]

\* syncAllRepositories() is called: the execution starts now; lastCompleted is
\* when the latest execution completed before this start.
startSync(s) ==
  [s EXCEPT !.running = s.running + 1, !.startedAt = s.clock,
            !.lastCompleted = s.completedAt]

\* setInterval(callback, intervalMs): the next run of the callback is one
\* interval after the timer was set or after the run before.
setInterval(s) == [s EXCEPT !.due = s.clock + s.interval]

\* initializeService, lines 410-429.
SchedBoot ==
  /\ sched.due = 0 /\ sched.startedAt = -1
  /\ sched' = setInterval(startSync(sched))
  /\ UNCHANGED <<listVars, reqVars, syncVars, sweep, ws, doc, cfg, bl, moreVars>>

\* A minute passes; the timer's callback runs when it is due.
SchedTick ==
  /\ sched.clock < MaxClock
  /\ sched.due # sched.clock
  /\ sched' = [sched EXCEPT !.clock = sched.clock + 1]
  /\ UNCHANGED <<listVars, reqVars, syncVars, sweep, ws, doc, cfg, bl, moreVars>>

\* The callback of the timer, lines 57-61.
SchedFire ==
  /\ sched.due = sched.clock /\ sched.due # 0
  /\ sched.running < MaxRunning
  /\ sched' = setInterval(startSync(sched))
  /\ UNCHANGED <<listVars, reqVars, syncVars, sweep, ws, doc, cfg, bl, moreVars>>

\* An execution reaches lines 169-193 and completes; the timer is not touched.
SchedComplete ==
  /\ sched.running > 0
  /\ sched' = [sched EXCEPT !.running = sched.running - 1,
                            !.completedAt = sched.clock]
  /\ UNCHANGED <<listVars, reqVars, syncVars, sweep, ws, doc, cfg, bl, moreVars>>

SchedNext == SchedBoot \/ SchedTick \/ SchedFire \/ SchedComplete

(***************************************************************************)
(* getOrCreateLists for one board (SpecLists).  The board is taken by the  *)
(* canonical list names it carries and whether one of them is carried      *)
(* twice; repoListCache holds the names mapped for the repository.  Each   *)
(* call is the one Phase 1 of a cycle makes; Phase 2 of that cycle then    *)
(* takes the repository up or skips it.                                    *)
(***************************************************************************)
MaxListCalls == 2       \* calls of getOrCreateLists

BlRest == bl = [lists |-> {}, twice |-> FALSE, cache |-> None, pc |-> "idle",
                i |-> 0, existingLists |-> {}, listMap |-> {}, before |-> {},
                posts |-> {}, calls |-> 0, result |-> "", prev |-> "",
                repoBoardMap |-> {}, taken |-> ""]

\* sync.ts line 59: repoBoardMap.set(repoFullName, boardId) after both calls
\* of Phase 1 have returned.
provisioned(b) == [b EXCEPT !.repoBoardMap = {<<"o", "a">>}]

\* A cycle starts with an empty repoBoardMap and Phase 1 calls
\* getOrCreateLists, which checks the cache (lines 396-400).
ListsCall ==
  /\ bl.pc = "idle"
  /\ bl.calls = 0 \/ bl.taken # ""
  /\ bl.calls < MaxListCalls
  /\ LET b == [bl EXCEPT !.calls = @ + 1, !.prev = bl.result, !.posts = {},
                         !.before = bl.lists, !.repoBoardMap = {},
                         !.taken = ""]
     IN bl' = IF IsSome(bl.cache)
              THEN provisioned([b EXCEPT !.result = "cached",
                                         !.listMap = The(bl.cache)])
              ELSE [b EXCEPT !.result = "", !.pc = "fetch", !.listMap = {}]
  /\ UNCHANGED <<listVars, reqVars, syncVars, sweep, ws, doc, cfg, sched, moreVars>>

\* Lines 404-410: the lists of the board are fetched; a failure is logged
\* and the lists are taken to be none.
FetchLists ==
  /\ bl.pc = "fetch"
  /\ \E ok \in BOOLEAN :
       bl' = [bl EXCEPT !.existingLists = IF ok THEN bl.lists ELSE {},
                        !.pc = "loop", !.i = 0]
  /\ UNCHANGED <<listVars, reqVars, syncVars, sweep, ws, doc, cfg, sched, moreVars>>

\* existingLists.find((l) => l.name === listName)
existing(existingLists, listName) == listName \in existingLists

\* Lines 444-447 and sync.ts 61-64: the failed creation is logged and thrown,
\* nothing is cached; Phase 1 catches and goes on.
createFailed_Cached(b) ==
  [b EXCEPT !.pc = "idle", !.result = "throw", !.cache = Some(b.listMap)]
createFailed(b) == [b EXCEPT !.pc = "idle", !.result = "throw"]

\* One round of the loop (lines 422-447) for listOrder[i]: an existing list
\* is mapped; otherwise POST /lists with position i, whose failure is thrown.
\* After the last round the map is cached and returned (449-450).
ListRound ==
  /\ bl.pc = "loop"
  /\ LET listName == listOrder[bl.i + 1]
         next(b) == IF bl.i + 1 < Len(listOrder)
                    THEN [b EXCEPT !.i = bl.i + 1]
                    ELSE provisioned([b EXCEPT !.pc = "idle", !.result = "ok",
                                               !.cache = Some(b.listMap)])
     IN IF existing(bl.existingLists, listName)
        THEN bl' = next([bl EXCEPT !.listMap = @ \cup {listName}])
        ELSE \/ bl' = next([bl EXCEPT
                              !.listMap = @ \cup {listName},
                              !.posts = @ \cup {<<listName, bl.i>>},
                              !.twice = @ \/ listName \in bl.lists,
                              !.lists = @ \cup {listName}])
             \/ bl' = createFailed([bl EXCEPT
                                      !.posts = @ \cup {<<listName, bl.i>>}])
  /\ UNCHANGED <<listVars, reqVars, syncVars, sweep, ws, doc, cfg, sched, moreVars>>

\* sync.ts lines 74-77: Phase 2 reaches the repository and skips it unless
\* Phase 1 has put it into repoBoardMap.
Phase2Lists ==
  /\ bl.pc = "idle"
  /\ bl.result # ""
  /\ bl.taken = ""
  /\ bl' = [bl EXCEPT !.taken = IF skipRepo(bl.repoBoardMap, <<"o", "a">>)
                                THEN "skipped" ELSE "reconciled"]
  /\ UNCHANGED <<listVars, reqVars, syncVars, sweep, ws, doc, cfg, sched, moreVars>>

ListsNext == ListsCall \/ FetchLists \/ ListRound \/ Phase2Lists

(***************************************************************************)
(* getOrCreateLabel for one board (SpecLabel).  The board's labels at the  *)
(* server are records of publicId and name; onCards holds the ids of the   *)
(* labels some card carries, the only ones GET /boards/{id} shows.         *)
(* labelCache is None or the cached Map of names to ids.  The colour of    *)
(* the request body has no part in what is cached or returned and is left  *)
(* out.                                                                    *)
(***************************************************************************)
MaxLabelCalls == 3      \* calls of getOrCreateLabel
MaxLabels == 3          \* labels ever created on the board

LabelTexts == {"bug", "Bug", "docs"}

\* The name in lower case.
toLowerCase(name) == IF name = "Bug" THEN "bug" ELSE name

NoLabelCall ==
  [labelName |-> "", cached |-> FALSE, posted |-> FALSE, failure |-> "",
   refetched |-> FALSE, result |-> None]

LabRest ==
  lab = [remote |-> {}, onCards |-> {}, labelCache |-> None, calls |-> 0,
         posts |-> [n \in LabelTexts |-> 0], returned |-> {}, last |-> NoLabelCall]


\* labelsMap of fetchBoardLabels (lines 530-548): of the labels on the
\* cards, the first one of each name.
labelsOnCards(remote, onCards) ==
  LET shown == { l \in remote : l.publicId \in onCards }
  IN { <<l.name, l.publicId>> : l \in
         { l \in shown : \A m \in shown :
                            m.name = l.name => l.publicId <= m.publicId } }

\* fetchBoardLabels: nothing when the board has a cache entry; otherwise
\* the labels found, or an empty Map when the request failed.
fetchBoardLabels(cache, remote, onCards, ok) ==
  IF IsSome(cache) THEN cache
  ELSE IF ok THEN Some(labelsOnCards(remote, onCards))
  ELSE Some({})

\* The message of a failed POST /labels.
LabelFailures == {"already exists", "network"}
isLabelDuplicate(errorMsg) == errorMsg = "already exists"

\* getOrCreateLabel(boardId, labelName), lines 568-621.
GetOrCreateLabel ==
  /\ lab.calls < MaxLabelCalls
  /\ \E labelName \in LabelTexts, ok \in BOOLEAN :
       LET boardCache == fetchBoardLabels(lab.labelCache, lab.remote, lab.onCards, ok)
           l0 == [lab EXCEPT !.calls = @ + 1, !.labelCache = boardCache]
           done(l, c) ==
             [l EXCEPT !.last = c,
                       !.returned = IF IsSome(c.result)
                                    THEN @ \cup {<<labelName, The(c.result)>>}
                                    ELSE @]
           c0 == [NoLabelCall EXCEPT !.labelName = labelName]
       IN IF has(The(boardCache), labelName)
          THEN lab' = done(l0, [c0 EXCEPT !.cached = TRUE,
                                          !.result = Some(get(The(boardCache), labelName))])
          ELSE LET l1 == [l0 EXCEPT !.posts[labelName] = @ + 1]
                   c1 == [c0 EXCEPT !.posted = TRUE]
                   newId == Cardinality(lab.remote) + 1
               IN \/ /\ Cardinality(lab.remote) < MaxLabels
                     /\ lab' = done([l1 EXCEPT
                                       !.remote = @ \cup {[publicId |-> newId, name |-> labelName]},
                                       !.labelCache = Some(set(The(boardCache), labelName, newId))],
                                    [c1 EXCEPT !.result = Some(newId)])
                  \/ \E failure \in LabelFailures :
                       /\ failure = "already exists" =>
                            \E l \in lab.remote : toLowerCase(l.name) = toLowerCase(labelName)
                       /\ IF isLabelDuplicate(failure)
                          THEN \E ok2 \in BOOLEAN :
                                 LET again == fetchBoardLabels(boardCache, lab.remote,
                                                               lab.onCards, ok2)
                                 IN lab' = done([l1 EXCEPT !.labelCache = again],
                                                [c1 EXCEPT
                                                   !.failure = failure,
                                                   !.refetched = again # boardCache,
                                                   !.result = IF has(The(again), labelName)
                                                              THEN Some(get(The(again), labelName))
                                                              ELSE None])
                          ELSE lab' = done(l1, [c1 EXCEPT !.failure = failure])
  /\ UNCHANGED <<listVars, reqVars, syncVars, partVars, gh, xt, wt>>

\* Another process, or a person, creates a label on the board.
LabelElsewhere ==
  /\ Cardinality(lab.remote) < MaxLabels
  /\ \E name \in LabelTexts :
       /\ \A l \in lab.remote : toLowerCase(l.name) # toLowerCase(name)
       /\ lab' = [lab EXCEPT !.remote = @ \cup {[publicId |-> Cardinality(lab.remote) + 1,
                                                  name |-> name]}]
  /\ UNCHANGED <<listVars, reqVars, syncVars, partVars, gh, xt, wt>>

\* A card of the board gets one of the board's labels (syncIssueCard sends
\* the label ids with the card).
LabelOnCard ==
  /\ \E l \in lab.remote :
       /\ l.publicId \notin lab.onCards
       /\ lab' = [lab EXCEPT !.onCards = @ \cup {l.publicId}]
  /\ UNCHANGED <<listVars, reqVars, syncVars, partVars, gh, xt, wt>>

LabelNext == GetOrCreateLabel \/ LabelElsewhere \/ LabelOnCard

(***************************************************************************)
(* fetchGitHubIssues for one repository (SpecFetch).  The tracker holds n  *)
(* entries, numbered in the order of the listing; which of them are pull   *)
(* requests follows a pattern.  A header is None or Some of its text.      *)
(***************************************************************************)
perPage == 100
MaxPages == 2           \* full pages a tracker holds at most
dateNow == 1000000      \* Date.now() during the call, in milliseconds

TrackerSizes ==
  UNION { {k * perPage, k * perPage + 1, (k + 1) * perPage - 1} : k \in 0..(MaxPages - 1) }
  \cup {MaxPages * perPage}
Patterns == {"issues", "pulls", "mixed", "pullPage"}
Trackers == [n : TrackerSizes, pattern : Patterns]

\* The entry at place i of the listing.
entry(t, i) ==
  LET pull == CASE t.pattern = "issues" -> FALSE
                [] t.pattern = "pulls" -> TRUE
                [] t.pattern = "mixed" -> i % 2 = 1
                [] t.pattern = "pullPage" -> i <= perPage
  IN [number |-> i, html_url |-> IF pull THEN "/pull/" ELSE "/issues/"]

\* The body of GET .../issues?per_page=100&page=<page>.
pageOf(t, page) ==
  LET from == (page - 1) * perPage
      m == IF t.n - from >= perPage THEN perPage
           ELSE IF t.n - from > 0 THEN t.n - from ELSE 0
  IN [k \in 1..m |-> entry(t, from + k)]

\* issue.html_url.includes('/pull/')
isPullRequest(issue) == issue.html_url = "/pull/"
actualIssues(pageIssues) == SelectSeq(pageIssues, LAMBDA issue : ~isPullRequest(issue))

\* Line 196: the page that ends the pagination.
shortPage_Filtered(pageIssues) == Len(actualIssues(pageIssues)) < perPage
shortPage(pageIssues) == Len(pageIssues) < perPage

parseInt(text) ==
  CASE text = "0" -> 0 [] text = "57" -> 57 [] text = "60" -> 60
    [] text = "900" -> 900 [] text = "1300" -> 1300

GitHubResponses ==
  { r \in [ status : {200, 403, 500},
            errorText : {"", "API rate limit exceeded", "Server Error"},
            remaining : {None, Some("0"), Some("57")},
            reset : {None, Some("900"), Some("1300")},
            retryAfter : {None, Some("60")} ] :
      /\ r.status = 200 <=> r.errorText = ""
      /\ r.status = 200 => r.retryAfter = None }

\* Math.max(0, Math.ceil((resetTimestamp - Date.now()) / 1000))
secondsUntil(resetTimestamp) ==
  IF resetTimestamp <= dateNow THEN 0
  ELSE (resetTimestamp - dateNow + 999) \div 1000

\* The rate-limit error: its message names the reset time or not.
rateLimitError(resetTimestamp) ==
  [rateLimit |-> TRUE, resetTimestamp |-> resetTimestamp, status |-> 0]

\* Lines 142-184: the error of a response that is not ok.
notOkError(r) ==
  IF r.status = 403 /\ r.errorText = "API rate limit exceeded"
  THEN LET resetTimestamp ==
             IF IsSome(r.retryAfter)
             THEN Some(dateNow + parseInt(The(r.retryAfter)) * 1000)
             ELSE IF IsSome(r.reset) THEN Some(parseInt(The(r.reset)) * 1000)
             ELSE None
           waitTime ==
             IF IsSome(r.retryAfter) THEN Some(parseInt(The(r.retryAfter)))
             ELSE IF IsSome(r.reset)
             THEN Some(secondsUntil(parseInt(The(r.reset)) * 1000))
             ELSE None
       IN IF IsSome(resetTimestamp) /\ IsSome(waitTime) /\ The(waitTime) > 0
          THEN rateLimitError(resetTimestamp)
          ELSE rateLimitError(None)
  ELSE [rateLimit |-> FALSE, resetTimestamp |-> None, status |-> r.status]

NoResponse ==
  [status |-> 0, errorText |-> "", remaining |-> None, reset |-> None,
   retryAfter |-> None]

GhIdle(t) ==
  [tracker |-> t, page |-> 1, issues |-> << >>, pc |-> "request",
   requested |-> << >>, response |-> NoResponse, error |-> None]

GhRest == gh = GhIdle([n |-> 0, pattern |-> ""])

\* One round of the loop of lines 117-198: the page is requested and the
\* response is looked at.
FetchPage ==
  /\ gh.pc = "request"
  /\ \E r \in GitHubResponses :
       LET g == [gh EXCEPT !.requested = Append(@, gh.page), !.response = r]
           pageIssues == pageOf(gh.tracker, gh.page)
       IN gh' =
            IF IsSome(r.remaining) /\ parseInt(The(r.remaining)) = 0 /\ IsSome(r.reset)
            THEN [g EXCEPT !.pc = "thrown",
                           !.error = Some(rateLimitError(
                                            Some(parseInt(The(r.reset)) * 1000)))]
            ELSE IF r.status # 200
            THEN [g EXCEPT !.pc = "thrown", !.error = Some(notOkError(r))]
            ELSE IF Len(pageIssues) = 0 THEN [g EXCEPT !.pc = "returned"]
            ELSE LET h == [g EXCEPT !.issues = @ \o actualIssues(pageIssues)]
                 IN IF shortPage(pageIssues) THEN [h EXCEPT !.pc = "returned"]
                    ELSE [h EXCEPT !.page = @ + 1]
  /\ UNCHANGED <<listVars, reqVars, syncVars, partVars, lab, xt, wt>>

(***************************************************************************)
(* The scan of getAllBoardCards over the cards of a response               *)
(* (SpecExtract).  Besides the titles above a title may carry '#<num>'     *)
(* somewhere after its start (loose).                                      *)
(***************************************************************************)
MaxScanCards == 2       \* cards in the response of GET /boards/{id}

ScanTitles ==
  { [form |-> f, num |-> 1, text |-> "t"] : f \in {"canon", "tight", "loose"} }
  \cup { [form |-> "plain", num |-> 0, text |-> "t"] }
ScanDescriptions ==
  { None } \cup { Some([url |-> u, assignees |-> << >>, body |-> None]) : u \in {0, 1} }
ScanResponses ==
  UNION { { [k \in 1..n |->
              [publicId |-> k, title |-> t[k], description |-> d[k],
               listPublicId |-> 1, labels |-> {}]]
            : t \in [1..n -> ScanTitles], d \in [1..n -> ScanDescriptions] }
          : n \in 1..MaxScanCards }

XtRest == xt = [resp |-> << >>, done |-> FALSE, cardMap |-> NoCards,
                duplicatesToDelete |-> << >>]

\* Lines 706-779 of getAllBoardCards over the cards of the response.
ScanCards ==
  /\ ~xt.done
  /\ xt.resp # << >>
  /\ xt' = [xt EXCEPT !.done = TRUE,
                      !.cardMap = cardMapOf(xt.resp),
                      !.duplicatesToDelete =
                         duplicatesToDeleteOf(xt.resp, firstSeen(xt.resp, {}))]
  /\ UNCHANGED <<listVars, reqVars, syncVars, partVars, lab, gh, wt>>

(***************************************************************************)
(* The interval timer and the watcher of config.json (SpecWatch), on a     *)
(* clock of WatchStepMs.  config.json is taken by its sync.intervalMinutes *)
(* (0 when absent, -1 for a file that does not parse); timers holds the    *)
(* interval timers that were set and not cleared; events is the history of *)
(* the saves of the file and of the reloads.  The workspace slug is left   *)
(* as it is in this part.                                                  *)
(***************************************************************************)
watchIntervalMs == 5000
debounceMs == 500
WatchStepMs == debounceMs \div 2
MaxWatchClock == 22     \* clock steps explored
MaxSaves == 2           \* saves of config.json
WatchContents == {-1, 0, 6}

WatchStart(token, content) ==
  [token |-> token, file |-> content, mtime |-> 0, stat |-> 0, clock |-> 0,
   nextPoll |-> 0, booted |-> FALSE, SYNC_INTERVAL_MINUTES |-> 0,
   timers |-> {}, syncIntervalTimer |-> 0, ids |-> 0, saves |-> 0,
   events |-> << >>]

WtRest == wt = WatchStart(FALSE, 0)

\* startSyncInterval, lines 49-62: clearInterval of the timer held, then
\* setInterval with getSyncIntervalMinutes().
startSyncInterval(w) ==
  LET cleared == IF w.syncIntervalTimer # 0
                 THEN {t \in w.timers : t.id # w.syncIntervalTimer}
                 ELSE w.timers
      id == w.ids + 1
      intervalMs == w.SYNC_INTERVAL_MINUTES * 60 * 1000
  IN  [w EXCEPT !.timers = cleared \cup {[id |-> id, intervalMs |-> intervalMs]},
                !.syncIntervalTimer = id, !.ids = id]

\* loadConfig on a file of the given content; a file that does not parse
\* leaves the configuration as it was.
loadConfig(w, content) ==
  IF content = -1 THEN w
  ELSE [w EXCEPT !.SYNC_INTERVAL_MINUTES = loadedInterval(content)]

\* reloadConfig, lines 108-146, on a file of the given content.
reloadConfig(w, content) ==
  LET oldSyncInterval == w.SYNC_INTERVAL_MINUTES
      loaded == loadConfig(w, content)
      newConfiguredInterval == loaded.SYNC_INTERVAL_MINUTES
      newSyncInterval ==
        IF newConfiguredInterval < MIN_SYNC_INTERVAL_MINUTES /\ ~w.token
        THEN MIN_SYNC_INTERVAL_MINUTES ELSE newConfiguredInterval
  IN  IF content = -1 THEN w
      ELSE IF newSyncInterval # oldSyncInterval THEN startSyncInterval(loaded)
      ELSE loaded

\* The start of the service: loadConfig, startSyncInterval and
\* setupConfigWatcher, whose watchFile polls the file every watchIntervalMs.
WatchBoot ==
  /\ ~wt.booted
  /\ wt.file # -1
  /\ wt' = [startSyncInterval(loadConfig(wt, wt.file)) EXCEPT
              !.booted = TRUE, !.stat = wt.mtime,
              !.nextPoll = wt.clock + watchIntervalMs \div WatchStepMs]
  /\ UNCHANGED <<listVars, reqVars, syncVars, partVars, lab, gh, xt>>

\* Someone saves config.json.
SaveConfig ==
  /\ wt.booted
  /\ wt.saves < MaxSaves
  /\ wt.mtime # wt.clock
  /\ \E v \in WatchContents \ {wt.file} :
       wt' = [wt EXCEPT !.file = v, !.mtime = wt.clock, !.saves = wt.saves + 1,
                        !.events = Append(wt.events,
                                          [kind |-> "change", at |-> wt.clock])]
  /\ UNCHANGED <<listVars, reqVars, syncVars, partVars, lab, gh, xt>>

\* Time passes; a poll that is due comes first.
WatchTick ==
  /\ wt.booted
  /\ wt.clock < MaxWatchClock
  /\ wt.clock # wt.nextPoll
  /\ wt' = [wt EXCEPT !.clock = wt.clock + 1]
  /\ UNCHANGED <<listVars, reqVars, syncVars, partVars, lab, gh, xt>>

\* A poll of watchFile: when the modification time differs from the one of
\* the poll before, the listener of setupConfigWatcher runs: loadConfig and,
\* when it succeeds, onChange, which is reloadConfig.  The two read the file
\* one after the other; it may be saved in between (second).
WatchPoll ==
  /\ wt.booted
  /\ wt.clock = wt.nextPoll
  /\ LET polled == [wt EXCEPT !.stat = wt.mtime,
                              !.nextPoll = wt.clock + watchIntervalMs \div WatchStepMs]
         result == loadConfig(polled, wt.file)
         reload == [kind |-> "reload", at |-> wt.clock]
     IN  IF wt.mtime = wt.stat \/ wt.file = -1
         THEN wt' = polled
         ELSE \/ wt' = [reloadConfig(result, wt.file) EXCEPT
                          !.events = Append(wt.events, reload)]
              \/ /\ wt.saves < MaxSaves
                 /\ wt.mtime # wt.clock
                 /\ \E second \in WatchContents \ {wt.file} :
                      wt' = [reloadConfig(result, second) EXCEPT
                               !.file = second, !.mtime = wt.clock,
                               !.saves = wt.saves + 1,
                               !.events =
                                  wt.events \o
                                    << [kind |-> "change", at |-> wt.clock],
                                       reload >>]
  /\ UNCHANGED <<listVars, reqVars, syncVars, partVars, lab, gh, xt>>

WatchNext == WatchBoot \/ SaveConfig \/ WatchTick \/ WatchPoll


PartRest == SweepRest /\ WsRest /\ DocRest /\ CfgRest /\ SchedRest /\ BlRest
MoreRest == LabRest /\ GhRest /\ XtRest /\ WtRest

ListRest == lst = [done |-> TRUE]

\* determineListForIssue alone.
AuxRest == SweepRest /\ WsRest /\ DocRest /\ CfgRest /\ SchedRest /\ BlRest /\ MoreRest

ListInit == ListStart /\ ReqStart /\ SyncRest /\ AuxRest
SpecList == ListInit /\ [][ListNext]_vars

\* kanbnRequest alone.
ReqInit == ListRest /\ ReqStart /\ SyncRest /\ AuxRest
SpecReq == ReqInit /\ [][ReqNext]_vars

\* kanbnRequest with one caller: the other one never calls.
ReqOneInit ==
  /\ ListRest /\ SyncRest /\ AuxRest
  /\ now = T0
  /\ lastRequestTime = 0
  /\ call = [p \in Callers |-> IF p = "a" THEN IdleCall
                                ELSE [IdleCall EXCEPT !.pc = "off"]]
  /\ wire = [last |-> 0, any |-> FALSE, tooClose |-> FALSE, calls |-> 0]
SpecReqOne == ReqOneInit /\ [][ReqOneNext]_vars

\* The service: the executions of syncAllRepositories over one repository.
Init == ListRest /\ ReqStart /\ SyncStart /\ AuxRest
Next == SyncNext
Spec == Init /\ [][Next]_vars

\* syncAllRepositories over the configured repositories.
SweepInit ==
  /\ ListRest /\ ReqStart /\ SyncRest /\ WsRest /\ DocRest /\ CfgRest /\ SchedRest /\ BlRest /\ MoreRest
  /\ sweep \in {SweepIdle(r, 0, 0) : r \in RepoConfigs}
SpecSweep == SweepInit /\ [][SweepNext]_vars

\* One execution of syncAllRepositories in which every awaited call
\* returns: a step of the execution that stays possible is taken.
SweepStep == Provision \/ EnterRepo \/ SyncIssue \/ RepoEnd
SweepOnceInit ==
  /\ ListRest /\ ReqStart /\ SyncRest /\ WsRest /\ DocRest /\ CfgRest /\ SchedRest /\ BlRest /\ MoreRest
  /\ sweep \in {SweepIdle(r, MaxSweeps - 1, 0) : r \in RepoConfigs}
SpecSweepFair == SweepOnceInit /\ [][SweepNext]_vars /\ WF_vars(SweepStep)

\* getOrCreateBoard over the cycles and restarts of the service.
BoardInit ==
  /\ ListRest /\ ReqStart /\ SyncRest /\ SweepRest /\ DocRest /\ CfgRest /\ SchedRest /\ BlRest /\ MoreRest
  /\ ws \in {[boards |-> b, cache |-> FALSE, pc |-> "idle", attempt |-> 0,
              calls |-> 0, restarts |-> 0, badCreate |-> FALSE,
              failure |-> "", waited |-> 0, result |-> "", relisted |-> ""] : b \in 0..1}
SpecBoard == BoardInit /\ [][BoardNext]_vars

\* The description of one issue.
DocInit ==
  /\ ListRest /\ ReqStart /\ SyncRest /\ SweepRest /\ WsRest /\ CfgRest /\ SchedRest /\ BlRest /\ MoreRest
  /\ doc \in {[issue |-> i, sent |-> None] : i \in DocIssues}
SpecDoc == DocInit /\ [][Describe]_vars

\* The sync interval over the start and the reloads of the configuration.
CfgInit ==
  /\ ListRest /\ ReqStart /\ SyncRest /\ SweepRest /\ WsRest /\ DocRest /\ SchedRest /\ BlRest /\ MoreRest
  /\ cfg \in {[token |-> t, file |-> v, changed |-> FALSE, seen |-> 0,
               SYNC_INTERVAL_MINUTES |-> 5, timer |-> 0, fileSlug |-> w,
               KAN_WORKSPACE_URL_SLUG |-> w, KAN_WORKSPACE_ID |-> 0,
               caches |-> NoCaches]
              : t \in BOOLEAN, v \in 0..MaxInterval, w \in Workspaces}
SpecCfg == CfgInit /\ [][CfgNext]_vars

\* The interval timer and the executions it starts.
SchedInit ==
  /\ ListRest /\ ReqStart /\ SyncRest /\ SweepRest /\ WsRest /\ DocRest /\ CfgRest /\ BlRest /\ MoreRest
  /\ sched \in {[interval |-> loadedInterval(v), clock |-> 0, due |-> 0,
                 running |-> 0, completedAt |-> -1, startedAt |-> -1,
                 lastCompleted |-> -1] : v \in 0..MaxInterval}
SpecSched == SchedInit /\ [][SchedNext]_vars

ListsInit ==
  /\ ListRest /\ ReqStart /\ SyncRest /\ SweepRest /\ WsRest /\ DocRest /\ CfgRest /\ MoreRest
  /\ SchedRest
  /\ bl \in {[lists |-> l, twice |-> FALSE, cache |-> None, pc |-> "idle",
              i |-> 0, existingLists |-> {}, listMap |-> {}, before |-> {},
              posts |-> {}, calls |-> 0, result |-> "", prev |-> "",
              repoBoardMap |-> {}, taken |-> ""] : l \in SUBSET AllLists}
SpecLists == ListsInit /\ [][ListsNext]_vars

\* getOrCreateLabel over the calls of a process for one board.
LabelInit ==
  /\ ListRest /\ ReqStart /\ SyncRest /\ PartRest /\ GhRest /\ XtRest /\ WtRest
  /\ \E r \in {{}, {[publicId |-> 1, name |-> "bug"]}}, c \in {{}, {1}} :
       /\ c \subseteq {l.publicId : l \in r}
       /\ lab = [remote |-> r, onCards |-> c, labelCache |-> None, calls |-> 0,
                 posts |-> [n \in LabelTexts |-> 0], returned |-> {},
                 last |-> NoLabelCall]
SpecLabel == LabelInit /\ [][LabelNext]_vars

\* fetchGitHubIssues over the trackers; every request is answered.
FetchInit ==
  /\ ListRest /\ ReqStart /\ SyncRest /\ PartRest /\ LabRest /\ XtRest /\ WtRest
  /\ gh \in {GhIdle(t) : t \in Trackers}
SpecFetch == FetchInit /\ [][FetchPage]_vars /\ WF_vars(FetchPage)

\* The scan over the responses of up to MaxScanCards cards.
ExtractInit ==
  /\ ListRest /\ ReqStart /\ SyncRest /\ PartRest /\ LabRest /\ GhRest /\ WtRest
  /\ xt \in {[resp |-> r, done |-> FALSE, cardMap |-> NoCards,
               duplicatesToDelete |-> << >>] : r \in ScanResponses}
SpecExtract == ExtractInit /\ [][ScanCards]_vars

\* The service with or without a token and any configured interval.
WatchInit ==
  /\ ListRest /\ ReqStart /\ SyncRest /\ PartRest /\ LabRest /\ GhRest /\ XtRest
  /\ wt \in {WatchStart(token, content) :
               token \in BOOLEAN, content \in WatchContents \ {-1}}
SpecWatch == WatchInit /\ [][WatchNext]_vars

\* One syncIssueCard with a possibly stale card reference; the call's steps
\* are requests that are answered, so a step that stays possible is taken.
CardInit == ListRest /\ ReqStart /\ CardStart /\ AuxRest
SpecCard == CardInit /\ [][CardNext]_vars
SpecCardFair == CardInit /\ [][CardNext]_vars /\ WF_vars(CardStep)

(***************************************************************************)
(* C1: once an execution of syncAllRepositories has completed (no request  *)
(* other than a board scan failed, nobody else wrote to the board during   *)
(* it or since), the board holds exactly one live card resolving to each   *)
(* issue number.                                                           *)
(***************************************************************************)
C1_OneLiveCardPerIssue ==
  obs.clean => \A n \in IssueNums : Cardinality(LiveCardsFor(board, n)) = 1

(***************************************************************************)
(* C2: a run of syncIssueCard that repeats the previous run of the issue   *)
(* (issue unchanged, board not written in between, the card handed over as *)
(* it is on the board, no request failed so far, no other execution in    *)
(* progress) sends no write request and returns false.                     *)
(***************************************************************************)
C2_SecondPassWritesNothing ==
  \A c \in Cycles :
    (cyc[c].rep /\ env.events = 0 /\ \A d \in Cycles \ {c} : cyc[d].pc = "idle") =>
      /\ ~cyc[c].wrote
      /\ cyc[c].pc = "returned" => cyc[c].result = "false"

(***************************************************************************)
(* C3: determineListForIssue returns the list of the first matching rule   *)
(* in the order closed -> Completed; PR with an assignee or a requested    *)
(* reviewer -> Quality Assurance; PR draft -> In Progress; PR otherwise    *)
(* -> Ready for QA; no PR data but a pull-request reference (a non-empty   *)
(* url) on the issue -> Ready for QA; issue assigned -> Selected;          *)
(* otherwise -> Backlog; the result is one of the configured lists.        *)
(***************************************************************************)
C3_Rules(issue, pr) ==
  << <<issue.state = "closed", getListNames.COMPLETED>>,
     <<IsSome(pr) /\ (The(pr).assignees # << >> \/ The(pr).requested_reviewers # << >>),
       getListNames.QUALITY_ASSURANCE>>,
     <<IsSome(pr) /\ The(pr).draft, getListNames.IN_PROGRESS>>,
     <<IsSome(pr), getListNames.READY_FOR_QA>>,
     <<IsSome(issue.pull_request) /\ The(issue.pull_request).url # "",
       getListNames.READY_FOR_QA>>,
     <<issue.assignees # << >>, getListNames.SELECTED>>,
     <<TRUE, getListNames.BACKLOG>> >>

C3_FirstMatch(issue, pr) ==
  LET rules == C3_Rules(issue, pr)
      i == CHOOSE k \in 1..Len(rules) :
             rules[k][1] /\ \A j \in 1..(k - 1) : ~rules[j][1]
  IN rules[i][2]

C29_FourLists(lists) == lists.readyForQa = "" /\ lists.qualityAssurance = ""

C29_HasPullRequest(issue, pr) ==
  \/ IsSome(pr)
  \/ IsSome(issue.pull_request) /\ The(issue.pull_request).url # ""

C29_VariantsByConfiguration ==
  lst.done =>
    /\ ( /\ C29_FourLists(lst.lists)
         /\ lst.issue.state = "open"
         /\ C29_HasPullRequest(lst.issue, lst.pullRequest) )
       => lst.configured = getListNamesFor(lst.lists).IN_PROGRESS
    /\ lst.result = C3_FirstMatch(lst.issue, lst.pullRequest)

(***************************************************************************)
(* C4: an execution that nobody else's write to the board has disturbed    *)
(* sends POST /cards for an issue only when no live card on the board      *)
(* resolves to the issue, also after a failed board scan and after a       *)
(* not-found update.                                                       *)
(***************************************************************************)
C4_CreateOnlyWhenAbsent ==
  \A c \in Cycles : ~cyc[c].dirty => ~cyc[c].badCreate

C6_Pending(c) ==
  cyc[c].delSent \cup
    { cyc[c].duplicatesToDelete[k] : k \in 1..Len(cyc[c].duplicatesToDelete) }

C6_SurvivorIsBestCard ==
  \A c \in Cycles : \A n \in IssueNums :
    LET cards == SelectSeq(cyc[c].resp,
                           LAMBDA card : extractIssueNumber(card) = Some(n))
        hits == { k \in 1..Len(cards) : startsWithPrefix(cards[k].title, n) }
    IN (cyc[c].pc = "dedup" /\ cards # << >>) =>
         \E s \in 1..Len(cards) :
           /\ IF hits # {} THEN s \in hits /\ \A k \in hits : s <= k ELSE s = 1
           /\ IsSome(cyc[c].cardMap[n])
           /\ The(cyc[c].cardMap[n]).publicId = cards[s].publicId
           /\ The(cyc[c].cardMap[n]).title = cards[s].title
           /\ cards[s].publicId \notin C6_Pending(c)
           /\ \A k \in 1..Len(cards) : k # s => cards[k].publicId \in C6_Pending(c)
           /\ ~cyc[c].dirty => cards[s].publicId \in LiveIds(board)

\* Two cards for an issue, the second alone with the prefix: the second is kept
\* and the first has got its DELETE request.
C6_Witness ==
  \E c \in Cycles : \E n \in IssueNums :
    LET cards == SelectSeq(cyc[c].resp,
                           LAMBDA card : extractIssueNumber(card) = Some(n))
    IN /\ cyc[c].pc = "dedup"
       /\ Len(cards) = 2
       /\ ~startsWithPrefix(cards[1].title, n)
       /\ startsWithPrefix(cards[2].title, n)
       /\ The(cyc[c].cardMap[n]).publicId = cards[2].publicId
       /\ cyc[c].duplicatesToDelete = << >>
       /\ cyc[c].delSent = {cards[1].publicId}
       /\ ~board[cards[1].publicId].live
       /\ board[cards[2].publicId].live

(***************************************************************************)
(* C7: at no time are two executions of syncAllRepositories in progress.   *)
(***************************************************************************)
C7_OneCycleAtATime ==
  \A c \in Cycles : \A d \in Cycles :
    c # d => ~(cyc[c].pc # "idle" /\ cyc[d].pc # "idle")

(***************************************************************************)
(* C8: two executions in progress at the same time, with no failed request *)
(* and no change from outside, never both create a card for the same       *)
(* issue.                                                                  *)
(***************************************************************************)
C8_NoDoubleCreate ==
  env.events = 0 =>
    \A c \in Cycles : \A d \in Cycles :
      c # d => cyc[c].createdFor \cap cyc[d].createdFor = {}

(***************************************************************************)
(* C9: one logical kanbnRequest call sends at most maxRetries + 1 = 4 HTTP *)
(* requests; when every response was 429, 500 or 401 with a rate-limit     *)
(* body it ends, after exactly 4 requests, with the retries-exceeded       *)
(* error.                                                                  *)
(***************************************************************************)
C9_RetryBound ==
  \A p \in Callers :
    /\ call[p].sent <= maxRetries + 1
    /\ call[p].retryCount <= maxRetries
    /\ (call[p].pc = "done" /\ call[p].limited) =>
         (call[p].sent = maxRetries + 1 /\ call[p].result = "RetriesExceeded")

C9_Witness ==
  \E p \in Callers :
    /\ call[p].pc = "done"
    /\ call[p].limited
    /\ call[p].sent = maxRetries + 1
    /\ call[p].result = "RetriesExceeded"

(***************************************************************************)
(* C10: any two consecutive HTTP requests to the board API are at least    *)
(* MIN_REQUEST_DELAY_MS apart, for every interleaving of callers.          *)
(***************************************************************************)
C10_MinDelayBetweenRequests == ~wire.tooClose

(***************************************************************************)
(* C11 (as stated).  When Phase 1 fails for a repository R, R gets no      *)
(* scan, no issue fetch and no syncIssueCard in that cycle, every other    *)
(* configured repository is still provisioned, and every provisioned       *)
(* repository has been reconciled (issues fetched, every issue synced)     *)
(* when the cycle ends.                                                    *)
(***************************************************************************)
C11_Excluded ==
  \A k \in sweep.p1fail :
     k \notin (sweep.scanned \cup sweep.fetched \cup sweep.cardReq)

C11_OthersProvisioned ==
  sweep.pc \in {"phase2", "issues", "repoEnd", "done"}
     => sweep.prov = DOMAIN sweep.repos

C11_AllProvisionedReconciled ==
  /\ C11_Excluded
  /\ C11_OthersProvisioned
  /\ (sweep.pc = "done" /\ sweep.p1fail # {})
        => \A k \in DOMAIN sweep.repos :
              sweep.repos[k] \in sweep.repoBoardMap => k \in sweep.swept

(***************************************************************************)
(* C11 (amended).  When Phase 1 fails for a repository R, R gets no scan,  *)
(* no issue fetch and no syncIssueCard in that cycle; every other          *)
(* configured repository is still provisioned; and a provisioned           *)
(* repository named owner/repo is taken up by Phase 2 (board scanned,      *)
(* issues fetched, and every issue synced when the fetch succeeds) unless  *)
(* an earlier repository's fetch hit the rate limit in this cycle.         *)
(***************************************************************************)
C11_ProvisionedTakenUp ==
  /\ C11_Excluded
  /\ C11_OthersProvisioned
  /\ (sweep.pc = "done" /\ sweep.p1fail # {})
        => \A k \in DOMAIN sweep.repos :
              /\ ( /\ sweep.repos[k] \in sweep.repoBoardMap
                   /\ validFormat(sweep.repos[k])
                   /\ (sweep.limited = 0 \/ k <= sweep.limited) )
                    => k \in sweep.scanned /\ k \in sweep.fetched
              /\ k \in sweep.fetchOk => k \in sweep.swept

C11_Witness ==
  /\ sweep.pc = "done"
  /\ Len(sweep.repos) = 3
  /\ sweep.p1fail = {2}
  /\ sweep.cardReq = {1, 3}
  /\ sweep.swept = {1, 3}

(***************************************************************************)
(* C12.  When fetchGitHubIssues throws a rate-limit error for repository   *)
(* R, no repository after R is scanned, fetched or synced in this cycle,   *)
(* the cycle ends with the promise resolved, and the cycle after it goes   *)
(* over all repositories again: all are provisioned and every provisioned  *)
(* one is taken up by Phase 2 unless the limit is hit again.               *)
(***************************************************************************)
C12_RateLimitEndsCycle ==
  /\ sweep.limited # 0
       => /\ \A k \in DOMAIN sweep.repos :
                k > sweep.limited
                  => k \notin (sweep.scanned \cup sweep.fetched \cup sweep.cardReq)
          /\ sweep.pc = "done"
          /\ sweep.resolved
  /\ (sweep.prevLimited # 0 /\ sweep.pc = "done" /\ sweep.limited = 0)
       => /\ sweep.prov = DOMAIN sweep.repos
          /\ \A k \in DOMAIN sweep.repos :
                (sweep.repos[k] \in sweep.repoBoardMap /\ validFormat(sweep.repos[k]))
                   => k \in sweep.fetched

C12_Witness ==
  /\ sweep.prevLimited = 2
  /\ Len(sweep.repos) = 3
  /\ sweep.pc = "done"
  /\ sweep.resolved
  /\ sweep.swept = {1, 2, 3}

(***************************************************************************)
(* C13.  In one repository's sweep every fetched issue gets exactly one    *)
(* syncIssueCard whatever happened to the issues before it, and the error  *)
(* count at the summary equals the number of issues whose syncIssueCard    *)
(* threw; a label that could not be created does not count.                *)
(***************************************************************************)
C13_EveryIssueOnce ==
  /\ \A j \in 1..MaxIssues : sweep.attempts[j] <= 1
  /\ sweep.pc = "repoEnd"
       => /\ \A j \in 1..MaxIssues :
                sweep.attempts[j] = IF j <= sweep.issues THEN 1 ELSE 0
          /\ sweep.errors = Cardinality(sweep.failed)

C13_Witness ==
  /\ sweep.pc = "repoEnd"
  /\ sweep.issues = 2
  /\ sweep.failed = {1}
  /\ sweep.attempts[2] = 1
  /\ sweep.errors = 1

(***************************************************************************)
(* C14.  getOrCreateBoard sends no board creation while a board with the   *)
(* repository's board name exists, whatever the listing answered, and the  *)
(* workspace never holds more than one board with that name.               *)
(***************************************************************************)
C14_OneBoardPerRepo ==
  /\ ~ws.badCreate
  /\ ws.boards <= 1

(***************************************************************************)
(* C15.  When syncIssueCard has returned without error for an issue, with  *)
(* every label of the issue mapped to a board label and nobody else        *)
(* writing to the board meanwhile, the labels of the issue's card are      *)
(* exactly the board labels of the issue's GitHub labels.                  *)
(***************************************************************************)
C15_LabelsFollowIssue ==
  \A c \in Cycles :
    ( /\ cyc[c].pc = "returned"
      /\ cyc[c].result # "throw"
      /\ ~cyc[c].dirty
      /\ cyc[c].labelIds = {theIssue(cyc[c]).labels[j] :
                              j \in DOMAIN theIssue(cyc[c]).labels} )
      => /\ cyc[c].acted \in LiveIds(board)
         /\ board[cyc[c].acted].labels = cyc[c].labelIds

(***************************************************************************)
(* C16.  The description sent for an issue is at most 10000 characters     *)
(* long; when the untruncated description is longer than 10000, the sent   *)
(* one ends with the truncation marker, is shorter than 10000 plus the     *)
(* marker, and begins with all the non-body fields and the separator,      *)
(* followed by a prefix of the body.                                       *)
(***************************************************************************)
C16_DescriptionFits ==
  IsSome(doc.sent) =>
    LET d == The(doc.sent)
        h == SumLengths(headerFields(doc.issue))
        full == h + (IF doc.issue.body > 0 THEN 7 + doc.issue.body ELSE 0)
    IN  /\ d.length <= 10000
        /\ d.length = d.head + d.sep + d.body + d.torn + d.marker
        /\ full > 10000 =>
             /\ d.marker = truncationMessageLength(doc.issue)
             /\ d.length < 10000 + d.marker
             /\ d.head = h
             /\ d.sep = 7
             /\ d.body < doc.issue.body
             /\ d.torn = 0
        /\ full <= 10000 =>
             d.marker = 0 /\ d.body = doc.issue.body /\ d.head = h

\* A body of 65536 characters under the longest header is cut.
C16_Witness ==
  /\ IsSome(doc.sent)
  /\ doc.issue.body = MaxBodyLength
  /\ doc.issue.assignees = MaxAssignees
  /\ The(doc.sent).marker > 0
  /\ The(doc.sent).body > 0
  /\ The(doc.sent).length <= 10000

(***************************************************************************)
(* C17.  In the first execution after the start (all caches empty), with   *)
(* no request failing and nothing else changing, when the board holds one  *)
(* card and the scan finds it to be the canonical, up-to-date card of the  *)
(* issue (title '#N: <title>', the description as built up to trailing     *)
(* white space, the list of the issue's state), no card is created,        *)
(* deleted or updated: the board stays as scanned and syncIssueCard        *)
(* returns false.                                                          *)
(***************************************************************************)
C17_ColdStart(c) ==
  /\ env.cycles = 1
  /\ env.events = 0
  /\ IsSome(cyc[c].existingCardsMap[1])
  /\ The(cyc[c].existingCardsMap[1]).title = cardTitle(github[1])
  /\ The(cyc[c].existingCardsMap[1]).description =
       Some([url |-> 1, assignees |-> << >>,
             body |-> Some([text |-> "x", pad |-> FALSE])])
  /\ github[1].body = Some([text |-> "x", pad |-> TRUE])
  /\ The(cyc[c].existingCardsMap[1]).listPublicId =
       listMap(determineListForIssue(github[1], None))

C17_ColdStartWritesNoCard ==
  \A c \in Cycles :
    C17_ColdStart(c) =>
      LET card == The(cyc[c].existingCardsMap[1]) IN
      /\ Len(board) = 1
      /\ board[card.publicId].live
      /\ board[card.publicId].title = card.title
      /\ board[card.publicId].description = card.description
      /\ board[card.publicId].listPublicId = card.listPublicId
      /\ cyc[c].duplicatesToDelete = << >>
      /\ cyc[c].delSent = {}
      /\ cyc[c].createdFor = {}
      /\ cyc[c].pc # "create"
      /\ cyc[c].pc = "returned" =>
           cyc[c].result = "false" /\ cyc[c].acted = card.publicId

C17_Witness ==
  \E c \in Cycles :
    /\ C17_ColdStart(c)
    /\ cyc[c].pc = "returned"
    /\ cyc[c].result = "false"
    /\ theIssue(cyc[c]).labels = <<"k">>

(***************************************************************************)
(* C18.  Once the timer runs, and after every reload, its interval is at   *)
(* least 5 minutes when no GitHub token is set, is the interval of the     *)
(* loaded configuration when a token is set, and is 5 minutes when the     *)
(* loaded configuration gives none.                                        *)
(***************************************************************************)
C18_EffectiveInterval ==
  (cfg.timer # 0 /\ ~cfg.changed) =>
     /\ ~cfg.token => cfg.timer >= 5
     /\ (cfg.token /\ cfg.seen # 0) => cfg.timer = cfg.seen
     /\ cfg.seen = 0 => cfg.timer = 5

(***************************************************************************)
(* C19.  When a syncIssueCard that got not-found for its PATCH has         *)
(* returned without error, and nobody else wrote to the board during the   *)
(* call, exactly one live card resolves to the issue.                      *)
(***************************************************************************)
C19_OneCardAfterNotFound ==
  ( /\ cyc[1].pc = "returned"
    /\ cyc[1].result # "throw"
    /\ cyc[1].ret = "notfound"
    /\ ~cyc[1].dirty )
    => Cardinality(LiveCardsFor(board, theIssue(cyc[1]).number)) = 1

(***************************************************************************)
(* C20.  One top-level syncIssueCard never goes deeper than one recursive  *)
(* call, sends at most two PATCH /cards and at most one POST /cards, and   *)
(* eventually returns or throws, whatever is answered.                     *)
(***************************************************************************)
C20_OneRetry ==
  /\ [](/\ cyc[1].recursionDepth <= 1
        /\ cyc[1].patches <= 2
        /\ cyc[1].posts <= 1)
  /\ <>(cyc[1].pc = "returned")

\* Both updates were answered not-found and the card was created.
C20_Witness ==
  /\ cyc[1].pc = "returned"
  /\ cyc[1].result = "true"
  /\ cyc[1].recursionDepth = 1
  /\ cyc[1].patches = 2
  /\ cyc[1].posts = 1

(***************************************************************************)
(* C21.  Whenever syncIssueCard sends a PATCH for the existing card, the   *)
(* computed title, the computed description or the target list id differs  *)
(* from the title, description or list id recorded for that card, and the  *)
(* label ids the PATCH carries are those of all the labels of the issue.   *)
(***************************************************************************)
C21_UpdateOnDifferenceWithAllLabels ==
  [][\A c \in Cycles :
       (cyc[c].pc = "upsert" /\ cyc'[c].patches > cyc[c].patches) =>
         /\ \/ The(cyc[c].existingCard).title # cardTitle(theIssue(cyc[c]))
            \/ The(cyc[c].existingCard).description #
                 Some(buildDescription(theIssue(cyc[c])))
            \/ The(cyc[c].existingCard).listPublicId # targetListId(cyc[c])
         /\ cyc[c].labelIds = {theIssue(cyc[c]).labels[j] :
                                 j \in DOMAIN theIssue(cyc[c]).labels}]_vars


(***************************************************************************)
(* C22.  When syncIssueCard has ended for the issue of the sweep, the      *)
(* issue is counted in at most one of created, updated and errors (in none *)
(* of them: unchanged); it is counted as created exactly if it had no live *)
(* card when syncIssueCard was called and the call created a card, and as  *)
(* updated exactly if it had a live card when syncIssueCard was called and *)
(* the call wrote to an existing card.                                     *)
(***************************************************************************)
C22_CountersClassify ==
  \A c \in Cycles :
    cyc[c].pc = "returned" =>
      /\ cyc[c].created + cyc[c].updated + cyc[c].errors <= cyc[c].i
      /\ cyc[c].errors = 1 <=> cyc[c].result = "throw"
      /\ cyc[c].created = 1 <=>
           (~cyc[c].before /\ cyc[c].result = "true" /\ cyc[c].posts > 0)
      /\ cyc[c].updated = 1 <=>
           (cyc[c].before /\ cyc[c].result = "true" /\ cyc[c].posts = 0)


(***************************************************************************)
(* C23.  Whenever an execution of syncAllRepositories has started after an *)
(* earlier one completed, it started at least one sync interval after that *)
(* completion.                                                             *)
(***************************************************************************)
C23_IntervalFromCompletion ==
  (sched.startedAt >= 0 /\ sched.lastCompleted >= 0) =>
     sched.startedAt - sched.lastCompleted >= sched.interval


(***************************************************************************)
(* C24.  Once a reload has taken up a configuration, every non-empty cache *)
(* (board id, list map, labels) holds ids of the workspace the loaded      *)
(* configuration names, and so do the ids the latest provisioning used: a  *)
(* reload that changes the workspace leaves the three caches empty.        *)
(***************************************************************************)
C24_CachesOfLoadedWorkspace ==
  (cfg.timer # 0 /\ ~cfg.changed) =>
     /\ cfg.caches.repoBoardCache \in {0, cfg.KAN_WORKSPACE_URL_SLUG}
     /\ cfg.caches.repoListCache \in {0, cfg.KAN_WORKSPACE_URL_SLUG}
     /\ cfg.caches.labelCache \in {0, cfg.KAN_WORKSPACE_URL_SLUG}
     /\ cfg.caches.used \in {0, cfg.KAN_WORKSPACE_URL_SLUG}


(***************************************************************************)
(* C25.  In getOrCreateBoard the listing is attempted at most 5 times; the *)
(* wait before a further attempt is 1, 2, 4 and 8 seconds; and the board   *)
(* creation is reached after a listing that failed with a 500 of the       *)
(* server only when all 5 attempts are used up.                            *)
(***************************************************************************)
C25_ListingRetriedOn500 ==
  /\ ws.attempt <= boardListRetries - 1
  /\ (ws.pc = "list" /\ ws.attempt > 0) =>
        ws.waited = (2 ^ (ws.attempt - 1)) * 1000
  /\ (ws.pc = "create" /\ ws.failure = "500") =>
        ws.attempt = boardListRetries - 1


(***************************************************************************)
(* C26.  When the creation of the board was refused as a duplicate,        *)
(* getOrCreateBoard has listed the boards once more before it ends; if     *)
(* that listing found a board with the repository's board name, the call   *)
(* returned it and the board is cached; the call threw only if the listing *)
(* found no such board (or failed).                                        *)
(***************************************************************************)
C26_DuplicateAdoptsBoard ==
  (ws.pc = "idle" /\ ws.failure = "409exists") =>
     /\ ws.relisted \in {"found", "none", "failed"}
     /\ ws.relisted = "found" => (ws.result = "adopted" /\ ws.cache)
     /\ ws.result = "throw" <=> ws.relisted \in {"none", "failed"}

\* The creation was refused as a duplicate and the board found by the second
\* listing was returned.
C26_Witness ==
  /\ ws.pc = "idle"
  /\ ws.failure = "409exists"
  /\ ws.relisted = "found"
  /\ ws.result = "adopted"
  /\ ws.cache


(***************************************************************************)
(* C27.  When a call of getOrCreateLists that missed the cache has ended,  *)
(* the list creations it sent are those for the canonical names the board  *)
(* did not have at the call, each with the position of the name in the     *)
(* declared order (all of them when it succeeded), none for a name the     *)
(* board had; and when it succeeded the returned map and the cached map    *)
(* hold every canonical name.                                              *)
(***************************************************************************)
C27_CreatesExactlyMissingLists ==
  (bl.pc = "idle" /\ bl.result \in {"ok", "throw"}) =>
     /\ bl.posts \subseteq
          {<<listOrder[j], j - 1>> : j \in {k \in 1..Len(listOrder) :
                                              listOrder[k] \notin bl.before}}
     /\ bl.result = "ok" =>
          /\ bl.posts =
               {<<listOrder[j], j - 1>> : j \in {k \in 1..Len(listOrder) :
                                                   listOrder[k] \notin bl.before}}
          /\ bl.listMap = AllLists
          /\ bl.cache = Some(AllLists)


(***************************************************************************)
(* C28.  When a list creation of getOrCreateLists has failed, the call has *)
(* thrown and no list map is cached for the repository; Phase 2 of that    *)
(* cycle skips the repository; the call of the next cycle does not return  *)
(* from the cache but provisions again, and when it succeeds the           *)
(* repository is reconciled in that cycle.                                 *)
(***************************************************************************)
C28_ListFailureExcludesForOneCycle ==
  /\ bl.result = "throw" =>
       /\ ~IsSome(bl.cache)
       /\ bl.repoBoardMap = {}
       /\ bl.taken \in {"", "skipped"}
  /\ bl.prev = "throw" => bl.result # "cached"
  /\ (bl.result = "ok" /\ bl.taken # "") => bl.taken = "reconciled"

\* A cycle in which a list creation failed is followed by one that creates
\* the lists and reconciles the repository.
C28_Witness ==
  /\ bl.prev = "throw"
  /\ bl.result = "ok"
  /\ bl.posts # {}
  /\ bl.taken = "reconciled"


(***************************************************************************)
(* C30.  When getOrCreateLists has succeeded for the repository, then for  *)
(* every issue and pull-request data the list name determineListForIssue   *)
(* chooses is a key of the returned map, so syncIssueCard does not throw   *)
(* 'List ... not found'; and the six workflow stages resolve to six        *)
(* different list ids.                                                     *)
(***************************************************************************)
C30_StageListId(stage) ==
  get(lst.listMap, nameOf(getListNamesFor(lst.lists), stage))

C30_ChosenListIsMapped ==
  /\ (lst.mapped = "ok" /\ lst.done) => has(lst.listMap, lst.configured)
  /\ lst.target # "throw"

C30_StagesHaveOwnLists ==
  lst.mapped = "ok" =>
    \A i, j \in 1..Len(Stages) :
      i # j => C30_StageListId(Stages[i]) # C30_StageListId(Stages[j])

C30_ListsResolve == C30_ChosenListIsMapped /\ C30_StagesHaveOwnLists


(***************************************************************************)
(* C31.  The labels of a board are keyed by the name without regard to     *)
(* letter case: for two label names that differ only in case               *)
(* getOrCreateLabel returns the same label id, and at most one POST        *)
(* /labels is sent for them.                                               *)
(***************************************************************************)
C31_LabelsKeyedWithoutCase ==
  /\ \A r1, r2 \in lab.returned :
       toLowerCase(r1[1]) = toLowerCase(r2[1]) => r1[2] = r2[2]
  /\ \A n1, n2 \in LabelTexts :
       (n1 # n2 /\ toLowerCase(n1) = toLowerCase(n2)) =>
          lab.posts[n1] + lab.posts[n2] <= 1


(***************************************************************************)
(* C32.  When the creation of a label has failed because the label already *)
(* exists, getOrCreateLabel has fetched the labels of the board again and  *)
(* returns the id of the existing label.                                   *)
(***************************************************************************)
C32_ExistingLabelRefetched ==
  (lab.last.posted /\ isLabelDuplicate(lab.last.failure)) =>
     /\ lab.last.refetched
     /\ IsSome(lab.last.result)
     /\ \E l \in lab.remote :
          /\ l.publicId = The(lab.last.result)
          /\ toLowerCase(l.name) = toLowerCase(lab.last.labelName)


(***************************************************************************)
(* C33.  A response that is not 2xx and neither 429, 500 nor a 401 with a  *)
(* rate-limit body ends kanbnRequest at once: the call throws on that      *)
(* attempt, sends nothing more and sets no backoff timer, and the error    *)
(* carries the method, the url, the status and the body of the response.   *)
(***************************************************************************)
C33_Other(r) == r.status # 200 /\ ~isRateLimit(r) /\ r.status # 500

C33_OtherErrorsFailAtOnce ==
  [][\A p \in Callers : \A r \in Responses \cup OtherResponses :
       (C33_Other(r) /\ call[p].pc = "fetch" /\ Respond(p, r)) =>
          /\ call'[p].pc = "done"
          /\ call'[p].result = "HttpError"
          /\ call'[p].sent = call[p].sent
          /\ call'[p].wake = call[p].wake
          /\ call'[p].error = Some([method |-> request(p).method,
                                    url |-> url(request(p).endpoint),
                                    status |-> r.status,
                                    errorText |-> errorText(r)])]_vars

\* A 503 answered the first attempt of a call, which has thrown.
C33_Witness ==
  \E p \in Callers :
    /\ call[p].pc = "done"
    /\ call[p].sent = 1
    /\ IsSome(call[p].error)
    /\ The(call[p].error).status = 503


(***************************************************************************)
(* C34.  fetchGitHubIssues requests the pages 1, 2, 3, ... of 100 entries  *)
(* and requests nothing after the first page of fewer than 100 entries;    *)
(* when it returns it has fetched up to that page and returns, in the      *)
(* order of the listing, the entries that are not pull requests (a full    *)
(* page of pull requests does not end it); and the call ends.              *)
(***************************************************************************)
C34_AllEntries(t) == [i \in 1..t.n |-> entry(t, i)]

C34_Pages ==
  /\ \A k \in 1..Len(gh.requested) :
       /\ gh.requested[k] = k
       /\ k < Len(gh.requested) => Len(pageOf(gh.tracker, k)) = perPage
  /\ gh.pc = "returned" =>
       /\ Len(gh.requested) > 0
       /\ Len(pageOf(gh.tracker, Len(gh.requested))) < perPage
       /\ gh.issues = SelectSeq(C34_AllEntries(gh.tracker),
                                LAMBDA e : e.html_url # "/pull/")

C34_Pagination == []C34_Pages /\ <>(gh.pc # "request")

\* The first page held pull requests only and the second page was fetched.
C34_Witness ==
  /\ gh.pc = "returned"
  /\ gh.tracker.pattern = "pullPage"
  /\ gh.requested = <<1, 2>>
  /\ Len(gh.issues) = 1


(***************************************************************************)
(* C35.  Whenever the response to a page request reports 0 remaining       *)
(* requests, fetchGitHubIssues throws a rate-limit error that carries the  *)
(* reset time (of the reset header or of Retry-After); the page is not     *)
(* used and no further page is requested.                                  *)
(***************************************************************************)
C35_QuotaExhaustedThrows ==
  (IsSome(gh.response.remaining) /\ parseInt(The(gh.response.remaining)) = 0) =>
     /\ gh.pc = "thrown"
     /\ IsSome(gh.error)
     /\ The(gh.error).rateLimit
     /\ IsSome(The(gh.error).resetTimestamp)


(***************************************************************************)
(* C36 (as stated).  When fetchGitHubIssues of repository R has thrown an  *)
(* error that is no rate-limit error, every provisioned repository after R *)
(* has had its issues fetched and reconciled when the cycle ends, and the  *)
(* promise of syncAllRepositories has resolved.                            *)
(***************************************************************************)
C36_FetchFailed(k) ==
  k \in sweep.fetched /\ k \notin sweep.fetchOk /\ k # sweep.limited

C36_LaterAllReconciled ==
  sweep.pc = "done" =>
    \A k \in DOMAIN sweep.repos : C36_FetchFailed(k) =>
      /\ sweep.resolved
      /\ \A j \in DOMAIN sweep.repos :
           (j > k /\ sweep.repos[j] \in sweep.repoBoardMap) =>
              j \in sweep.fetched /\ j \in sweep.swept

(***************************************************************************)
(* C36 (amended).  When fetchGitHubIssues of repository R has thrown an    *)
(* error that is no rate-limit error, the cycle goes on and its promise    *)
(* resolves: every provisioned repository after R that is named owner/repo *)
(* has its issues fetched unless a rate-limit error of a repository before *)
(* it ended the cycle, and every repository whose fetch succeeded has had  *)
(* all its issues handed to syncIssueCard.                                 *)
(***************************************************************************)
C36_OnlyFailedRepoSkipped ==
  sweep.pc = "done" =>
    \A k \in DOMAIN sweep.repos : C36_FetchFailed(k) =>
      /\ sweep.resolved
      /\ k \notin sweep.cardReq
      /\ \A j \in DOMAIN sweep.repos :
           /\ ( /\ j > k
                /\ sweep.repos[j] \in sweep.repoBoardMap
                /\ validFormat(sweep.repos[j])
                /\ (sweep.limited = 0 \/ j <= sweep.limited) )
                 => j \in sweep.fetched
           /\ j \in sweep.fetchOk => j \in sweep.swept

\* The fetch of the first of three repositories failed; the other two were
\* reconciled.
C36_Witness ==
  /\ sweep.pc = "done"
  /\ Len(sweep.repos) = 3
  /\ C36_FetchFailed(1)
  /\ sweep.limited = 0
  /\ sweep.cardReq = {2, 3}
  /\ sweep.swept = {2, 3}


(***************************************************************************)
(* C37.  Every started execution of syncAllRepositories completes: when    *)
(* every awaited call returns, whatever fails in provisioning, scanning,   *)
(* fetching or syncing, the execution reaches its end, and it ends with    *)
(* the promise resolved.                                                   *)
(***************************************************************************)
C37_CycleCompletes ==
  /\ [](sweep.pc = "done" => sweep.resolved)
  /\ (sweep.pc \in {"phase1", "phase2", "issues", "repoEnd"}) ~> (sweep.pc = "done")

\* An execution has completed in which a provisioning, a fetch and a
\* syncIssueCard failed.
C37_Witness ==
  /\ sweep.pc = "done"
  /\ sweep.resolved
  /\ sweep.p1fail # {}
  /\ \E k \in DOMAIN sweep.repos : C36_FetchFailed(k)
  /\ sweep.failed # {}


(***************************************************************************)
(* C38.  The issue number of a card is the first that is found of: the     *)
(* '#<N>: ' prefix of the title, an issue link of the repository in the    *)
(* description, a '#<N>' anywhere in the title.  A card is matched to the  *)
(* issue of that number, as the card of the issue or as a duplicate to     *)
(* delete; a card for which all three fail is neither matched nor deleted. *)
(***************************************************************************)
C38_LooseMatch(title) ==
  IF title.form \in {"canon", "tight", "loose"} THEN Some(title.num) ELSE None

C38_Expected(card) ==
  IF card.title.form = "canon" THEN Some(card.title.num)
  ELSE IF IsSome(card.description) /\ The(card.description).url # 0
    THEN Some(The(card.description).url)
  ELSE C38_LooseMatch(card.title)

C38_TakesPart(k) ==
  \/ \E n \in IssueNums :
        IsSome(xt.cardMap[n]) /\ The(xt.cardMap[n]).publicId = k
  \/ \E j \in 1..Len(xt.duplicatesToDelete) : xt.duplicatesToDelete[j] = k

C38_Unnumbered ==
  xt.done =>
    \A k \in 1..Len(xt.resp) :
      (C38_Expected(xt.resp[k]) = None) => ~C38_TakesPart(k)

C38_ThreeStepExtraction ==
  /\ C38_Unnumbered
  /\ xt.done =>
       \A k \in 1..Len(xt.resp) :
         IsSome(C38_Expected(xt.resp[k])) => C38_TakesPart(k)


(***************************************************************************)
(* C39.  Once the service has started, at most one interval timer is       *)
(* active, and its period is the sync interval in effect, which is the one *)
(* of the configuration loaded last; a restart of the timer does not leave *)
(* the timer before it running.                                            *)
(***************************************************************************)
C39_AtMostOneTimer ==
  wt.booted => Cardinality(wt.timers) = 1

C39_Restarted ==
  wt.booted /\ wt.ids > 1

C39_OneTimerOfEffectiveInterval ==
  /\ C39_AtMostOneTimer
  /\ wt.booted =>
       \A t \in wt.timers :
         t.intervalMs = wt.SYNC_INTERVAL_MINUTES * 60 * 1000


(***************************************************************************)
(* C40.  Saves of config.json that follow one another within the debounce  *)
(* window cause one reload, performed after the last of them: no reload    *)
(* lies between two such saves.                                            *)
(***************************************************************************)
C40_Rapid(i, k) ==
  /\ wt.events[i].kind = "change"
  /\ wt.events[k].kind = "change"
  /\ (wt.events[k].at - wt.events[i].at) * WatchStepMs < debounceMs

C40_Debounced ==
  \A i, j, k \in 1..Len(wt.events) :
    (i < j /\ j < k /\ C40_Rapid(i, k)) => wt.events[j].kind # "reload"


====
